---- MODULE Spec2Model ----
(***************************************************************************)
(* LibreQoS: the Bakery command encoder (lqos_bakery/src/commands.rs), the *)
(* search handler (lqosd/.../local_api/search.rs) and the override file's  *)
(* load and save (lqos_overrides/src/overrides_file.rs).                   *)
(*                                                                         *)
(* A tc argument vector is a sequence of strings.  Option<Vec<Vec<String>>>*)
(* is a record [some, v]: None is absent, Some(v) is present (v may be the *)
(* empty sequence).  f32 rates (Mbps) are carried in tenths of a Mbps, so  *)
(* that rounding (format_rate_for_tc_f32) and truncation (`as u64`) differ.*)
(***************************************************************************)
EXTENDS Integers, Sequences, FiniteSets, TLC

\* ------------------------------------------------------------------ bounds
MaxQueues == 2
MaxStickOffset == 2
ExtraEntries == 2
MaxAdjustments == 2
MaxCapacity == 9

\* ------------------------------------------------------- process state
VARIABLE
    MQ_CREATED       \* crate::MQ_CREATED, the process-wide AtomicBool

\* ----------------------------------------------------------- small helpers
Max(a, b) == IF a >= b THEN a ELSE b
Min(a, b) == IF a <= b THEN a ELSE b

None == [some |-> FALSE, v |-> <<>>]
Some(vec) == [some |-> TRUE, v |-> vec]

HexDigits == <<"0", "1", "2", "3", "4", "5", "6", "7",
               "8", "9", "a", "b", "c", "d", "e", "f">>

\* format!("{:x}", n)
RECURSIVE LowerHex(_)
LowerHex(n) ==
    IF n < 16 THEN HexDigits[n + 1]
    ELSE LowerHex(n \div 16) \o HexDigits[(n % 16) + 1]

\* format!("{}", n) / u64::to_string
RECURSIVE Display(_)
Display(n) ==
    IF n < 10 THEN HexDigits[n + 1]
    ELSE Display(n \div 10) \o HexDigits[(n % 10) + 1]

\* `x as u64` for an f32 carried in tenths: truncation toward zero,
\* saturating at 0 for negative values.
F32AsU64(tenths) == IF tenths < 0 THEN 0 ELSE tenths \div 10

\* `(num / den) as u64` for f64 operands: truncation toward zero, saturating
\* at 0 for negative values.
F64QuotAsU64(num, den) == IF num < 0 THEN 0 ELSE num \div den

\* ------------------------------------------- queue_math (not in this tree)
format_rate_for_tc(mbps) == Display(Max(1, mbps)) \o "mbit"

format_rate_for_tc_f32(tenths) ==
    Display(Max(1, (tenths + 5) \div 10)) \o "mbit"

r2q(max_rate_in_mbps) ==
    Max(10, ((max_rate_in_mbps * 125000) + 59999) \div 60000)

quantum(rate_in_mbps, r2q_value) ==
    Display(Min(200000, Max(1500, (rate_in_mbps * 125000) \div r2q_value)))

sqm_as_vec(config) == config.default_sqm

sqm_rate_fixup(rate_tenths, config) ==
    IF rate_tenths < 50 THEN config.default_sqm \o <<"rtt", "300">>
    ELSE config.default_sqm

\* TcHandle::as_tc_string
as_tc_string(h) == "0x" \o LowerHex(h.major) \o ":0x" \o LowerHex(h.minor)

\* ----------------------------------------------- lqos_config::Config views
isp_interface(config) == config.isp
internet_interface(config) ==
    IF config.on_a_stick THEN config.isp ELSE config.internet
on_a_stick_mode(config) == config.on_a_stick

\* ------------------------------------------------------------ input spaces
ExecutionMode == {"Builder", "LiveUpdate"}
LazyQueueMode == {"None", "No", "Htb", "Full"}

Bandwidths == {<<1000, 1000>>, <<0, 1>>, <<500, 2000>>}

Configs ==
    { [isp |-> "eth0", internet |-> "eth1", on_a_stick |-> s,
       uplink_bandwidth_mbps |-> b[1], downlink_bandwidth_mbps |-> b[2],
       lazy_queues |-> l, monitor_only |-> m,
       default_sqm |-> <<"cake", "diffserv4">>] :
      s \in BOOLEAN, b \in Bandwidths, l \in LazyQueueMode, m \in BOOLEAN }

TcHandle(major, minor) == [major |-> major, minor |-> minor]

\* <<download min, upload min, download max, upload max>>, in tenths of Mbps
RateProfiles == { <<1000, 500, 10000, 5000>>, <<4, 0, 996, 25>> }

\* <<parent_class_id, up_parent_class_id, class_minor>>
SiteShapes == { <<TcHandle(1, 1), TcHandle(1, 1), 16>>,
                <<TcHandle(1, 3), TcHandle(9, 3), 255>> }

\* <<parent_class_id, up_parent_class_id, class_minor,
\*   class_major, up_class_major>>
CircuitShapes == { <<TcHandle(1, 1), TcHandle(1, 1), 16, 1, 1>>,
                   <<TcHandle(1, 3), TcHandle(9, 3), 255, 3, 11>> }

MqSetupCommands ==
    { [type |-> "MqSetup", queues_available |-> q, stick_offset |-> o] :
      q \in 0..MaxQueues, o \in 0..MaxStickOffset }

AddSiteCommands ==
    { [type |-> "AddSite", site_hash |-> 1,
       parent_class_id |-> p[1], up_parent_class_id |-> p[2],
       class_minor |-> p[3],
       download_bandwidth_min |-> r[1], upload_bandwidth_min |-> r[2],
       download_bandwidth_max |-> r[3], upload_bandwidth_max |-> r[4]] :
      p \in SiteShapes, r \in RateProfiles }

AddCircuitCommands ==
    { [type |-> "AddCircuit", circuit_hash |-> 7,
       parent_class_id |-> p[1], up_parent_class_id |-> p[2],
       class_minor |-> p[3],
       download_bandwidth_min |-> r[1], upload_bandwidth_min |-> r[2],
       download_bandwidth_max |-> r[3], upload_bandwidth_max |-> r[4],
       class_major |-> p[4], up_class_major |-> p[5],
       ip_addresses |-> "10.0.0.1"] :
      p \in CircuitShapes, r \in RateProfiles }

ChangeSiteSpeedLiveCommands ==
    { [type |-> "ChangeSiteSpeedLive", site_hash |-> 1,
       download_bandwidth_min |-> r[1], upload_bandwidth_min |-> r[2],
       download_bandwidth_max |-> r[3], upload_bandwidth_max |-> r[4]] :
      r \in RateProfiles }

StormGuardAdjustmentCommands ==
    { [type |-> "StormGuardAdjustment", dry_run |-> d,
       interface_name |-> "eth0", class_id |-> "1:2", new_rate |-> n] :
      d \in BOOLEAN, n \in {1, 500} }

ControlCommands ==
    { [type |-> "OnCircuitActivity", circuit_ids |-> {7}],
      [type |-> "Tick"], [type |-> "StartBatch"], [type |-> "CommitBatch"] }

BakeryCommands ==
    MqSetupCommands \cup AddSiteCommands \cup AddCircuitCommands
    \cup ChangeSiteSpeedLiveCommands \cup StormGuardAdjustmentCommands
    \cup ControlCommands

\* ---------------------------------------------------------------- mq_setup
\* Mutant: the else branch forgets the Internet-facing root delete.
ClearPrior_IspOnly(config) ==
    << <<"qdisc", "del", "dev", isp_interface(config), "root">> >>

\* The root `qdisc del` commands pushed first.
ClearPrior(config) ==
    IF on_a_stick_mode(config)
    THEN << <<"qdisc", "del", "dev", isp_interface(config), "root">> >>
    ELSE << <<"qdisc", "del", "dev", isp_interface(config), "root">>,
            <<"qdisc", "del", "dev", internet_interface(config), "root">> >>

MqRoot(iface) ==
    <<"qdisc", "replace", "dev", iface, "root", "handle", "7FFF:", "mq">>

\* Mutant: the default class rate is rounded to the nearest, as the Python
\* reference does, instead of truncated.
QueueBlock_RoundedQuarter(config, iface, n, cap, r2q_value) ==
    << <<"qdisc", "add", "dev", iface, "parent", "7FFF:0x" \o LowerHex(n),
         "handle", "0x" \o LowerHex(n) \o ":", "htb", "default", "2">>,
       <<"class", "add", "dev", iface, "parent", "0x" \o LowerHex(n) \o ":",
         "classid", "0x" \o LowerHex(n) \o ":1", "htb",
         "rate", format_rate_for_tc(cap), "ceil", format_rate_for_tc(cap),
         "quantum", quantum(cap, r2q_value)>>,
       <<"qdisc", "add", "dev", iface, "parent",
         "0x" \o LowerHex(n) \o ":1">> \o sqm_as_vec(config),
       <<"class", "add", "dev", iface, "parent", "0x" \o LowerHex(n) \o ":1",
         "classid", "0x" \o LowerHex(n) \o ":2", "htb",
         "rate", format_rate_for_tc(F64QuotAsU64(cap - 1 + 2, 4)),
         "ceil", format_rate_for_tc(F64QuotAsU64(cap - 1, 1)),
         "prio", "5", "quantum", quantum(cap, r2q_value)>>,
       <<"qdisc", "add", "dev", iface, "parent",
         "0x" \o LowerHex(n) \o ":2">> \o sqm_as_vec(config) >>

\* The five commands one iteration of a queue loop pushes: `iface` is the
\* interface, `n` the queue index already offset (queue + 1, or
\* queue + stick_offset + 1), `cap` the bandwidth the loop reads from config.
QueueBlock(config, iface, n, cap, r2q_value) ==
    << <<"qdisc", "add", "dev", iface, "parent", "7FFF:0x" \o LowerHex(n),
         "handle", "0x" \o LowerHex(n) \o ":", "htb", "default", "2">>,
       <<"class", "add", "dev", iface, "parent", "0x" \o LowerHex(n) \o ":",
         "classid", "0x" \o LowerHex(n) \o ":1", "htb",
         "rate", format_rate_for_tc(cap), "ceil", format_rate_for_tc(cap),
         "quantum", quantum(cap, r2q_value)>>,
       <<"qdisc", "add", "dev", iface, "parent",
         "0x" \o LowerHex(n) \o ":1">> \o sqm_as_vec(config),
       <<"class", "add", "dev", iface, "parent", "0x" \o LowerHex(n) \o ":1",
         "classid", "0x" \o LowerHex(n) \o ":2", "htb",
         "rate", format_rate_for_tc(F64QuotAsU64(cap - 1, 4)),
         "ceil", format_rate_for_tc(F64QuotAsU64(cap - 1, 1)),
         "prio", "5", "quantum", quantum(cap, r2q_value)>>,
       <<"qdisc", "add", "dev", iface, "parent",
         "0x" \o LowerHex(n) \o ":2">> \o sqm_as_vec(config) >>

\* for queue in 0..queues_available on the ISP-facing interface
RECURSIVE IspLoop(_, _, _)
IspLoop(config, queues_available, r2q_value) ==
    IF queues_available = 0 THEN <<>>
    ELSE IspLoop(config, queues_available - 1, r2q_value)
         \o QueueBlock(config, isp_interface(config),
                       (queues_available - 1) + 1,
                       config.uplink_bandwidth_mbps, r2q_value)

\* Mutant: the second loop uses stick_offset alone, without the + 1.
RECURSIVE InternetLoop_OffByOne(_, _, _, _)
InternetLoop_OffByOne(config, queues_available, stick_offset, r2q_value) ==
    IF queues_available = 0 THEN <<>>
    ELSE InternetLoop_OffByOne(config, queues_available - 1, stick_offset,
                               r2q_value)
         \o QueueBlock(config, internet_interface(config),
                       (queues_available - 1) + stick_offset,
                       config.downlink_bandwidth_mbps, r2q_value)

\* Mutant: the second loop forgets stick_offset in the queue index.
RECURSIVE InternetLoop_NoOffset(_, _, _, _)
InternetLoop_NoOffset(config, queues_available, stick_offset, r2q_value) ==
    IF queues_available = 0 THEN <<>>
    ELSE InternetLoop_NoOffset(config, queues_available - 1, stick_offset,
                               r2q_value)
         \o QueueBlock(config, internet_interface(config),
                       (queues_available - 1) + 1,
                       config.downlink_bandwidth_mbps, r2q_value)

\* for queue in 0..queues_available on the Internet-facing interface
RECURSIVE InternetLoop(_, _, _, _)
InternetLoop(config, queues_available, stick_offset, r2q_value) ==
    IF queues_available = 0 THEN <<>>
    ELSE InternetLoop(config, queues_available - 1, stick_offset, r2q_value)
         \o QueueBlock(config, internet_interface(config),
                       (queues_available - 1) + stick_offset + 1,
                       config.downlink_bandwidth_mbps, r2q_value)

\* Mutant: the ISP-facing mq root is replaced after its queue loop.
mq_setup_RootAfterLoop(config, queues_available, stick_offset) ==
    LET r2q_value == r2q(Max(config.uplink_bandwidth_mbps,
                             config.downlink_bandwidth_mbps))
    IN Some(ClearPrior(config)
            \o IspLoop(config, queues_available, r2q_value)
            \o << MqRoot(isp_interface(config)) >>
            \o (IF ~on_a_stick_mode(config)
                THEN << MqRoot(internet_interface(config)) >> ELSE <<>>)
            \o InternetLoop(config, queues_available, stick_offset,
                            r2q_value))

mq_setup(config, queues_available, stick_offset) ==
    LET r2q_value == r2q(Max(config.uplink_bandwidth_mbps,
                             config.downlink_bandwidth_mbps))
    IN Some(ClearPrior(config)
            \o << MqRoot(isp_interface(config)) >>
            \o IspLoop(config, queues_available, r2q_value)
            \o (IF ~on_a_stick_mode(config)
                THEN << MqRoot(internet_interface(config)) >> ELSE <<>>)
            \o InternetLoop(config, queues_available, stick_offset,
                            r2q_value))

\* ---------------------------------------------------------------- add_site
\* The HTB `class replace` argv shared by add_site and add_circuit.
HtbClassReplace(iface, parent, class_minor, min_rate, max_rate, link_mbps) ==
    <<"class", "replace", "dev", iface, "parent", as_tc_string(parent),
      "classid", "0x" \o LowerHex(class_minor), "htb",
      "rate", format_rate_for_tc_f32(min_rate),
      "ceil", format_rate_for_tc_f32(max_rate),
      "prio", "3",
      "quantum", quantum(F32AsU64(max_rate), r2q(link_mbps))>>

\* Mutant: the two directions' rates are attached to the wrong interface.
add_site_RatesSwapped(config, cmd) ==
    Some(<< HtbClassReplace(isp_interface(config), cmd.parent_class_id,
                            cmd.class_minor, cmd.upload_bandwidth_min,
                            cmd.upload_bandwidth_max,
                            config.downlink_bandwidth_mbps),
            HtbClassReplace(internet_interface(config),
                            cmd.up_parent_class_id, cmd.class_minor,
                            cmd.download_bandwidth_min,
                            cmd.download_bandwidth_max,
                            config.uplink_bandwidth_mbps) >>)

add_site(config, cmd) ==
    Some(<< HtbClassReplace(isp_interface(config), cmd.parent_class_id,
                            cmd.class_minor, cmd.download_bandwidth_min,
                            cmd.download_bandwidth_max,
                            config.downlink_bandwidth_mbps),
            HtbClassReplace(internet_interface(config),
                            cmd.up_parent_class_id, cmd.class_minor,
                            cmd.upload_bandwidth_min,
                            cmd.upload_bandwidth_max,
                            config.uplink_bandwidth_mbps) >>)

\* ------------------------------------------------------------- add_circuit
\* Mutant: live update under lazy Htb also re-creates the HTB classes.
LazyDecision_LiveHtbBoth(execution_mode, lazy_queues) ==
    IF execution_mode = "Builder"
    THEN CASE lazy_queues \in {"None", "No"} ->
                [ret_none |-> FALSE, do_htb |-> TRUE, do_sqm |-> TRUE]
           [] lazy_queues = "Full" ->
                [ret_none |-> TRUE, do_htb |-> FALSE, do_sqm |-> FALSE]
           [] lazy_queues = "Htb" ->
                [ret_none |-> FALSE, do_htb |-> TRUE, do_sqm |-> FALSE]
    ELSE CASE lazy_queues \in {"None", "No"} ->
                [ret_none |-> FALSE, do_htb |-> FALSE, do_sqm |-> FALSE]
           [] lazy_queues = "Htb" ->
                [ret_none |-> FALSE, do_htb |-> TRUE, do_sqm |-> TRUE]
           [] lazy_queues = "Full" ->
                [ret_none |-> FALSE, do_htb |-> TRUE, do_sqm |-> TRUE]

\* The lazy decision of add_circuit: [ret_none, do_htb, do_sqm].
LazyDecision(execution_mode, lazy_queues) ==
    IF execution_mode = "Builder"
    THEN CASE lazy_queues \in {"None", "No"} ->
                [ret_none |-> FALSE, do_htb |-> TRUE, do_sqm |-> TRUE]
           [] lazy_queues = "Full" ->
                [ret_none |-> TRUE, do_htb |-> FALSE, do_sqm |-> FALSE]
           [] lazy_queues = "Htb" ->
                [ret_none |-> FALSE, do_htb |-> TRUE, do_sqm |-> FALSE]
    ELSE CASE lazy_queues \in {"None", "No"} ->
                [ret_none |-> FALSE, do_htb |-> FALSE, do_sqm |-> FALSE]
           [] lazy_queues = "Htb" ->
                [ret_none |-> FALSE, do_htb |-> FALSE, do_sqm |-> TRUE]
           [] lazy_queues = "Full" ->
                [ret_none |-> FALSE, do_htb |-> TRUE, do_sqm |-> TRUE]

SqmReplace(config, iface, major, class_minor, max_rate) ==
    <<"qdisc", "replace", "dev", iface, "parent",
      "0x" \o LowerHex(major) \o ":0x" \o LowerHex(class_minor)>>
    \o sqm_rate_fixup(max_rate, config)

\* Mutant: the SQM pushes forget the monitor_only test.
CircuitPushes_SqmIgnoresMonitorOnly(config, cmd, do_htb, do_sqm) ==
    (IF do_htb
     THEN << HtbClassReplace(isp_interface(config), cmd.parent_class_id,
                             cmd.class_minor, cmd.download_bandwidth_min,
                             cmd.download_bandwidth_max,
                             config.downlink_bandwidth_mbps) >>
     ELSE <<>>)
    \o (IF do_sqm
        THEN << SqmReplace(config, isp_interface(config), cmd.class_major,
                           cmd.class_minor, cmd.download_bandwidth_max) >>
        ELSE <<>>)
    \o (IF do_htb
        THEN << HtbClassReplace(internet_interface(config),
                                cmd.up_parent_class_id, cmd.class_minor,
                                cmd.upload_bandwidth_min,
                                cmd.upload_bandwidth_max,
                                config.uplink_bandwidth_mbps) >>
        ELSE <<>>)
    \o (IF do_sqm
        THEN << SqmReplace(config, internet_interface(config),
                           cmd.up_class_major, cmd.class_minor,
                           cmd.upload_bandwidth_max) >>
        ELSE <<>>)

\* Mutant: both HTB pushes are made before both SQM pushes.
CircuitPushes_HtbFirst(config, cmd, do_htb, do_sqm) ==
    (IF do_htb
     THEN << HtbClassReplace(isp_interface(config), cmd.parent_class_id,
                             cmd.class_minor, cmd.download_bandwidth_min,
                             cmd.download_bandwidth_max,
                             config.downlink_bandwidth_mbps),
             HtbClassReplace(internet_interface(config),
                             cmd.up_parent_class_id, cmd.class_minor,
                             cmd.upload_bandwidth_min,
                             cmd.upload_bandwidth_max,
                             config.uplink_bandwidth_mbps) >>
     ELSE <<>>)
    \o (IF ~config.monitor_only /\ do_sqm
        THEN << SqmReplace(config, isp_interface(config), cmd.class_major,
                           cmd.class_minor, cmd.download_bandwidth_max),
                SqmReplace(config, internet_interface(config),
                           cmd.up_class_major, cmd.class_minor,
                           cmd.upload_bandwidth_max) >>
        ELSE <<>>)

\* The four conditional pushes of add_circuit, in source order.
CircuitPushes(config, cmd, do_htb, do_sqm) ==
    (IF do_htb
     THEN << HtbClassReplace(isp_interface(config), cmd.parent_class_id,
                             cmd.class_minor, cmd.download_bandwidth_min,
                             cmd.download_bandwidth_max,
                             config.downlink_bandwidth_mbps) >>
     ELSE <<>>)
    \o (IF ~config.monitor_only /\ do_sqm
        THEN << SqmReplace(config, isp_interface(config), cmd.class_major,
                           cmd.class_minor, cmd.download_bandwidth_max) >>
        ELSE <<>>)
    \o (IF do_htb
        THEN << HtbClassReplace(internet_interface(config),
                                cmd.up_parent_class_id, cmd.class_minor,
                                cmd.upload_bandwidth_min,
                                cmd.upload_bandwidth_max,
                                config.uplink_bandwidth_mbps) >>
        ELSE <<>>)
    \o (IF ~config.monitor_only /\ do_sqm
        THEN << SqmReplace(config, internet_interface(config),
                           cmd.up_class_major, cmd.class_minor,
                           cmd.upload_bandwidth_max) >>
        ELSE <<>>)

add_circuit(execution_mode, config, cmd) ==
    LET d == LazyDecision(execution_mode, config.lazy_queues)
    IN IF d.ret_none THEN None
       ELSE Some(CircuitPushes(config, cmd, d.do_htb, d.do_sqm))

\* ------------------------------------------------------------- to_commands
\* Mutant: MqSetup is skipped once MQ_CREATED is set.
to_commands_SkipsMqOnceCreated(cmd, config, execution_mode) ==
    CASE cmd.type = "MqSetup" ->
            IF MQ_CREATED THEN None
            ELSE mq_setup(config, cmd.queues_available, cmd.stick_offset)
      [] cmd.type = "AddSite" -> add_site(config, cmd)
      [] cmd.type = "AddCircuit" -> add_circuit(execution_mode, config, cmd)
      [] OTHER -> None

\* Mutant: the encoder gains a StormGuardAdjustment arm.
to_commands_StormGuardArm(cmd, config, execution_mode) ==
    CASE cmd.type = "MqSetup" ->
            mq_setup(config, cmd.queues_available, cmd.stick_offset)
      [] cmd.type = "AddSite" -> add_site(config, cmd)
      [] cmd.type = "AddCircuit" -> add_circuit(execution_mode, config, cmd)
      [] cmd.type = "StormGuardAdjustment" ->
            Some(<< <<"class", "change", "dev", cmd.interface_name,
                      "classid", cmd.class_id, "htb",
                      "rate", Display(cmd.new_rate - 1) \o "mbit",
                      "ceil", Display(cmd.new_rate) \o "mbit">> >>)
      [] OTHER -> None

\* Mutant: the catch-all arm returns an empty list instead of None.
to_commands_DefaultEmpty(cmd, config, execution_mode) ==
    CASE cmd.type = "MqSetup" ->
            mq_setup(config, cmd.queues_available, cmd.stick_offset)
      [] cmd.type = "AddSite" -> add_site(config, cmd)
      [] cmd.type = "AddCircuit" -> add_circuit(execution_mode, config, cmd)
      [] OTHER -> Some(<<>>)

to_commands(cmd, config, execution_mode) ==
    CASE cmd.type = "MqSetup" ->
            mq_setup(config, cmd.queues_available, cmd.stick_offset)
      [] cmd.type = "AddSite" -> add_site(config, cmd)
      [] cmd.type = "AddCircuit" -> add_circuit(execution_mode, config, cmd)
      [] OTHER -> None

\* ---------------------------------------------------------------- to_prune
\* Mutant: an unforced prune under lazy Htb also removes the HTB classes.
PruneDecision_HtbBoth(force, lazy_queues) ==
    IF force
    THEN [ret_none |-> FALSE, prune_htb |-> TRUE, prune_sqm |-> TRUE]
    ELSE CASE lazy_queues \in {"None", "No"} ->
                [ret_none |-> TRUE, prune_htb |-> FALSE, prune_sqm |-> FALSE]
           [] lazy_queues = "Htb" ->
                [ret_none |-> FALSE, prune_htb |-> TRUE, prune_sqm |-> TRUE]
           [] lazy_queues = "Full" ->
                [ret_none |-> FALSE, prune_htb |-> TRUE, prune_sqm |-> TRUE]

\* The prune decision of to_prune: [ret_none, prune_htb, prune_sqm].
PruneDecision(force, lazy_queues) ==
    IF force
    THEN [ret_none |-> FALSE, prune_htb |-> TRUE, prune_sqm |-> TRUE]
    ELSE CASE lazy_queues \in {"None", "No"} ->
                [ret_none |-> TRUE, prune_htb |-> FALSE, prune_sqm |-> FALSE]
           [] lazy_queues = "Htb" ->
                [ret_none |-> FALSE, prune_htb |-> FALSE, prune_sqm |-> TRUE]
           [] lazy_queues = "Full" ->
                [ret_none |-> FALSE, prune_htb |-> TRUE, prune_sqm |-> TRUE]

\* Mutant: the ISP-facing qdisc is deleted before the Internet-facing one.
PruneSqm_IspFirst(config, cmd) ==
    << <<"qdisc", "del", "dev", isp_interface(config), "parent",
         "0x" \o LowerHex(cmd.class_major) \o ":0x"
              \o LowerHex(cmd.class_minor)>> >>
    \o (IF ~on_a_stick_mode(config)
        THEN << <<"qdisc", "del", "dev", internet_interface(config), "parent",
                  "0x" \o LowerHex(cmd.up_class_major) \o ":0x"
                       \o LowerHex(cmd.class_minor)>> >>
        ELSE <<>>)

\* if prune_sqm { ... }: the SQM qdisc deletes
PruneSqm(config, cmd) ==
    (IF ~on_a_stick_mode(config)
     THEN << <<"qdisc", "del", "dev", internet_interface(config), "parent",
               "0x" \o LowerHex(cmd.up_class_major) \o ":0x"
                    \o LowerHex(cmd.class_minor)>> >>
     ELSE <<>>)
    \o << <<"qdisc", "del", "dev", isp_interface(config), "parent",
            "0x" \o LowerHex(cmd.class_major) \o ":0x"
                 \o LowerHex(cmd.class_minor)>> >>

\* Mutant: the class deletes name the other direction's parent handle.
PruneHtb_ParentsSwapped(config, cmd) ==
    << <<"class", "del", "dev", isp_interface(config), "parent",
         as_tc_string(cmd.up_parent_class_id),
         "classid", "0x" \o LowerHex(cmd.class_minor)>>,
       <<"class", "del", "dev", internet_interface(config), "parent",
         as_tc_string(cmd.parent_class_id),
         "classid", "0x" \o LowerHex(cmd.class_minor)>> >>

PruneHtb(config, cmd) ==
    << <<"class", "del", "dev", isp_interface(config), "parent",
         as_tc_string(cmd.parent_class_id),
         "classid", "0x" \o LowerHex(cmd.class_minor)>>,
       <<"class", "del", "dev", internet_interface(config), "parent",
         as_tc_string(cmd.up_parent_class_id),
         "classid", "0x" \o LowerHex(cmd.class_minor)>> >>

to_prune(cmd, config, force) ==
    IF cmd.type # "AddCircuit" THEN None
    ELSE LET d == PruneDecision(force, config.lazy_queues)
         IN IF d.ret_none THEN None
            ELSE Some((IF d.prune_sqm THEN PruneSqm(config, cmd) ELSE <<>>)
                      \o (IF d.prune_htb THEN PruneHtb(config, cmd)
                          ELSE <<>>))

\* ============================ lqosd/node_manager/local_api/search.rs
\* A String is the sequence of its characters (one-character strings).
UpperCase == <<"A", "B", "C", "D", "E", "F", "G", "H", "I", "J", "K", "L", "M", "N", "O", "P", "Q", "R", "S", "T", "U", "V", "W", "X", "Y", "Z">>
LowerCase == <<"a", "b", "c", "d", "e", "f", "g", "h", "i", "j", "k", "l", "m", "n", "o", "p", "q", "r", "s", "t", "u", "v", "w", "x", "y", "z">>

IsDigit(ch) == \E i \in 1..10 : HexDigits[i] = ch
DigitVal(ch) == (CHOOSE i \in 1..10 : HexDigits[i] = ch) - 1

\* usize / u8 Display, as characters
RECURSIVE DisplayChars(_)
DisplayChars(n) ==
    IF n < 10 THEN <<HexDigits[n + 1]>>
    ELSE DisplayChars(n \div 10) \o <<HexDigits[(n % 10) + 1]>>

\* the value of a run of decimal digits
RECURSIVE DecValue(_)
DecValue(s) ==
    IF s = <<>> THEN 0
    ELSE DecValue(SubSeq(s, 1, Len(s) - 1)) * 10 + DigitVal(s[Len(s)])

\* char::to_lowercase on the ASCII letters
ToLowerChar(ch) ==
    IF \E i \in 1..26 : UpperCase[i] = ch
    THEN LowerCase[CHOOSE i \in 1..26 : UpperCase[i] = ch]
    ELSE ch

\* str::to_lowercase
to_lowercase(s) == [i \in 1..Len(s) |-> ToLowerChar(s[i])]

\* str::starts_with(&str)
starts_with(s, p) == Len(p) <= Len(s) /\ SubSeq(s, 1, Len(p)) = p

\* str::contains(&str)
contains(s, p) ==
    \E i \in 1..(Len(s) - Len(p) + 1) : SubSeq(s, i, i + Len(p) - 1) = p

\* str::contains(char)
contains_char(s, ch) == \E i \in 1..Len(s) : s[i] = ch

\* str::trim
RECURSIVE trim_start(_)
trim_start(s) ==
    IF s # <<>> /\ Head(s) = " " THEN trim_start(Tail(s)) ELSE s

RECURSIVE trim_end(_)
trim_end(s) ==
    IF s # <<>> /\ s[Len(s)] = " "
    THEN trim_end(SubSeq(s, 1, Len(s) - 1))
    ELSE s

trim(s) == trim_end(trim_start(s))

\* str::split(char), collected
RECURSIVE split(_, _)
split(s, ch) ==
    IF ~contains_char(s, ch) THEN <<s>>
    ELSE LET i == CHOOSE k \in 1..Len(s) :
                      s[k] = ch /\ \A j \in 1..(k - 1) : s[j] # ch
         IN  <<SubSeq(s, 1, i - 1)>> \o split(SubSeq(s, i + 1, Len(s)), ch)

\* One octet of a dotted quad: one to three digits, no leading zero, <= 255.
IsOctet(s) ==
    /\ Len(s) \in 1..3
    /\ \A i \in 1..Len(s) : IsDigit(s[i])
    /\ (Len(s) > 1 => s[1] # "0")
    /\ DecValue(s) <= 255

ParseFailed == [ok |-> FALSE, v4 |-> FALSE, octets |-> <<>>]

\* str::parse::<Ipv4Addr>
ParseIpv4(s) ==
    LET parts == split(s, ".")
    IN  IF Len(parts) = 4 /\ \A i \in 1..4 : IsOctet(parts[i])
        THEN [ok |-> TRUE, v4 |-> TRUE,
              octets |-> [i \in 1..4 |-> DecValue(parts[i])]]
        ELSE ParseFailed

\* Ipv4Addr::to_ipv6_mapped: ::ffff:a.b.c.d
to_ipv6_mapped(o) == <<0, 0, 0, 0, 0, 0, 0, 0, 0, 0, 255, 255>> \o o

MappedPrefix == <<":", ":", "f", "f", "f", "f", ":">>

\* str::parse::<IpAddr>: a dotted quad is V4; the IPv6 texts of this model
\* are the IPv4-mapped ones, "::ffff:a.b.c.d".
ParseIpAddr(s) ==
    LET v4 == ParseIpv4(s)
        v6 == IF starts_with(s, MappedPrefix)
              THEN ParseIpv4(SubSeq(s, Len(MappedPrefix) + 1, Len(s)))
              ELSE ParseFailed
    IN  IF v4.ok THEN v4
        ELSE IF v6.ok
             THEN [ok |-> TRUE, v4 |-> FALSE,
                   octets |-> to_ipv6_mapped(v6.octets)]
             ELSE ParseFailed

\* the number of bits of an n-bit prefix that fall into byte k
BitsIn(k, n) == Max(0, Min(8, n - 8 * (k - 1)))

\* (a & mask) == (b & mask) for the mask of an n-bit prefix
same_prefix(a, b, n) ==
    \A k \in 1..Len(a) :
        a[k] \div (2 ^ (8 - BitsIn(k, n))) = b[k] \div (2 ^ (8 - BitsIn(k, n)))

\* no bit is set after the n-bit prefix
host_bits_zero(a, n) ==
    \A k \in 1..Len(a) : a[k] % (2 ^ (8 - BitsIn(k, n))) = 0

NetParseFailed == [ok |-> FALSE, v4 |-> FALSE, addr |-> <<>>, len |-> 0]

\* str::parse::<IpNetwork>: "<address>/<prefix length>"; the length must fit
\* the family and no host bit may be set.
ParseIpNetwork(s) ==
    LET parts == split(s, "/")
        ip == ParseIpAddr(parts[1])
        digits == parts[2]
        len == DecValue(digits)
    IN  IF /\ Len(parts) = 2
           /\ ip.ok
           /\ Len(digits) \in 1..3
           /\ \A i \in 1..Len(digits) : IsDigit(digits[i])
           /\ len <= (IF ip.v4 THEN 32 ELSE 128)
           /\ host_bits_zero(ip.octets, len)
        THEN [ok |-> TRUE, v4 |-> ip.v4, addr |-> ip.octets, len |-> len]
        ELSE NetParseFailed

\* a.b.c.d
Dotted(o) ==
    DisplayChars(o[1]) \o <<".">> \o DisplayChars(o[2]) \o <<".">>
        \o DisplayChars(o[3]) \o <<".">> \o DisplayChars(o[4])

\* Ipv6Network Display for the networks of the trie, which hold IPv4-mapped
\* addresses: "::ffff:a.b.c.d/len"
net_to_string(n) ==
    MappedPrefix \o Dotted(SubSeq(n.addr, 13, 16)) \o <<"/">>
        \o DisplayChars(n.len)

\* the IPv4-mapped network a.b.c.d/len of the trie
MappedNet(a, b, c, d, len) ==
    [addr |-> to_ipv6_mapped(<<a, b, c, d>>), len |-> len]

NoMatch == [found |-> FALSE, net |-> MappedNet(0, 0, 0, 0, 128), idx |-> 0]

\* Longest-prefix match picks, among the entries whose network holds the
\* address, the one with the longest prefix.
longest_match_Shortest(trie, q) ==
    LET hits == { i \in 1..Len(trie) :
                    same_prefix(trie[i].net.addr, q, trie[i].net.len) }
    IN  IF hits = {} THEN NoMatch
        ELSE LET i == CHOOSE k \in hits :
                          \A j \in hits : trie[j].net.len >= trie[k].net.len
             IN  [found |-> TRUE, net |-> trie[i].net, idx |-> trie[i].idx]

\* trie.longest_match(query_v6)
longest_match(trie, q) ==
    LET hits == { i \in 1..Len(trie) :
                    same_prefix(trie[i].net.addr, q, trie[i].net.len) }
    IN  IF hits = {} THEN NoMatch
        ELSE LET i == CHOOSE k \in hits :
                          \A j \in hits : trie[j].net.len <= trie[k].net.len
             IN  [found |-> TRUE, net |-> trie[i].net, idx |-> trie[i].idx]

ipv6_overlap(a, b) ==
    LET minp == Min(a.len, b.len)
    IN  minp = 0 \/ same_prefix(a.addr, b.addr, minp)

MAX_RESULTS == 50

Circuit(id, name) == [kind |-> "Circuit", id |-> id, name |-> name]
Device(circuit_id, name, circuit_name) ==
    [kind |-> "Device", circuit_id |-> circuit_id, name |-> name,
     circuit_name |-> circuit_name]
Site(idx, name) == [kind |-> "Site", idx |-> idx, name |-> name]

\* the de-duplication key of push_result
DedupKey(r) ==
    CASE r.kind = "Circuit" -> <<"C", "i", "r", "c", "u", "i", "t", ":">> \o r.id
      [] r.kind = "Device" ->
             <<"D", "e", "v", "i", "c", "e", ":">> \o r.circuit_id \o <<":">> \o r.name
      [] r.kind = "Site" -> <<"S", "i", "t", "e", ":">> \o DisplayChars(r.idx)

NoResults == [results |-> <<>>, seen |-> {}]

push_result_NoDedup(st, r, max_results) ==
    IF Len(st.results) >= max_results THEN st
    ELSE [results |-> Append(st.results, r),
          seen |-> st.seen \cup {DedupKey(r)}]

push_result(st, r, max_results) ==
    IF Len(st.results) >= max_results THEN st
    ELSE IF DedupKey(r) \in st.seen THEN st
    ELSE [results |-> Append(st.results, r),
          seen |-> st.seen \cup {DedupKey(r)}]

\* format!("{} ({})", dev.device_name, net)
DeviceWithNet(dev, netText) ==
    Device(dev.circuit_id,
           dev.device_name \o <<" ", "(">> \o netText \o <<")">>,
           dev.circuit_name)

\* query_v6 of the first pass
query_v6(ip) == IF ip.v4 THEN to_ipv6_mapped(ip.octets) ELSE ip.octets

\* First pass: exact IP matches using the LPM trie.
FirstPass(st, sd, exact_ip) ==
    IF ~exact_ip.ok THEN st
    ELSE LET m == longest_match(sd.trie, query_v6(exact_ip))
         IN  IF m.found /\ m.idx < Len(sd.devices)
             THEN push_result(st,
                      DeviceWithNet(sd.devices[m.idx + 1],
                                    net_to_string(m.net)),
                      MAX_RESULTS)
             ELSE st

\* net_v6 of the second pass: a V4 network moves into the mapped space.
net_v6(net) ==
    IF net.v4
    THEN LET addr == to_ipv6_mapped(net.addr)
             mapped_pref == Min(net.len + 96, 255)
         IN  IF mapped_pref <= 128 /\ host_bits_zero(addr, mapped_pref)
             THEN [addr |-> addr, len |-> mapped_pref]
             ELSE [addr |-> addr, len |-> 128]
    ELSE [addr |-> net.addr, len |-> net.len]

\* the trie loop of the CIDR branch, from entry i on
RECURSIVE CidrLoop(_, _, _, _)
CidrLoop(st, sd, net, i) ==
    IF i > Len(sd.trie) \/ Len(st.results) >= MAX_RESULTS THEN st
    ELSE LET n == sd.trie[i].net
             idx == sd.trie[i].idx
         IN  CidrLoop(IF ipv6_overlap(n, net) /\ idx < Len(sd.devices)
                      THEN push_result(st,
                               DeviceWithNet(sd.devices[idx + 1],
                                             net_to_string(n)),
                               MAX_RESULTS)
                      ELSE st,
                      sd, net, i + 1)

\* the trie loop of the textual-prefix branch, from entry i on
RECURSIVE TextLoop(_, _, _, _)
TextLoop(st, sd, raw_term, i) ==
    IF i > Len(sd.trie) \/ Len(st.results) >= MAX_RESULTS THEN st
    ELSE LET s == net_to_string(sd.trie[i].net)
             idx == sd.trie[i].idx
         IN  TextLoop(IF starts_with(s, raw_term) /\ idx < Len(sd.devices)
                      THEN push_result(st,
                               DeviceWithNet(sd.devices[idx + 1], s),
                               MAX_RESULTS)
                      ELSE st,
                      sd, raw_term, i + 1)

\* Second pass: CIDR or IP prefix matches.
SecondPass(st, sd, raw_term) ==
    IF /\ Len(st.results) < MAX_RESULTS
       /\ (contains_char(raw_term, ".") \/ contains_char(raw_term, ":"))
       /\ Len(to_lowercase(raw_term)) >= 3
    THEN IF contains_char(raw_term, "/")
         THEN LET net == ParseIpNetwork(raw_term)
              IN  IF net.ok THEN CidrLoop(st, sd, net_v6(net), 1) ELSE st
         ELSE TextLoop(st, sd, raw_term, 1)
    ELSE st

\* the device loop of the third pass, from device i on
RECURSIVE NameLoop(_, _, _, _)
NameLoop(st, sd, term_lc, i) ==
    IF i > Len(sd.devices) \/ Len(st.results) >= MAX_RESULTS THEN st
    ELSE LET dev == sd.devices[i]
             s1 == IF contains(to_lowercase(dev.circuit_name), term_lc)
                   THEN push_result(st,
                            Circuit(dev.circuit_id, dev.circuit_name),
                            MAX_RESULTS)
                   ELSE st
         IN  IF Len(s1.results) >= MAX_RESULTS THEN s1
             ELSE NameLoop(
                      IF contains(to_lowercase(dev.device_name), term_lc)
                      THEN push_result(s1,
                               Device(dev.circuit_id, dev.device_name,
                                      dev.circuit_name),
                               MAX_RESULTS)
                      ELSE s1,
                      sd, term_lc, i + 1)

\* Third pass: Circuit/Device name substring matches.
ThirdPass(st, sd, term_lc) ==
    IF Len(st.results) < MAX_RESULTS /\ Len(term_lc) >= 3
    THEN NameLoop(st, sd, term_lc, 1)
    ELSE st

\* the node loop of the fourth pass, from node i on (idx = i - 1)
RECURSIVE SiteLoop(_, _, _, _)
SiteLoop(st, nodes, term_lc, i) ==
    IF i > Len(nodes) \/ Len(st.results) >= MAX_RESULTS THEN st
    ELSE SiteLoop(IF contains(to_lowercase(nodes[i]), term_lc)
                  THEN push_result(st, Site(i - 1, nodes[i]), MAX_RESULTS)
                  ELSE st,
                  nodes, term_lc, i + 1)

\* Fourth pass: Site name substring matches.
FourthPass(st, nodes, term_lc) ==
    IF Len(st.results) < MAX_RESULTS /\ Len(term_lc) >= 3
    THEN SiteLoop(st, nodes, term_lc, 1)
    ELSE st

\* the handler as the spec describes its dispatch: the later passes run
\* only when the term is no IP address
search_ElseIf(term, sd, nodes) ==
    LET raw_term == trim(term)
        term_lc == to_lowercase(raw_term)
        exact_ip == ParseIpAddr(raw_term)
        p1 == FirstPass(NoResults, sd, exact_ip)
    IN  IF exact_ip.ok THEN p1.results
        ELSE FourthPass(ThirdPass(SecondPass(p1, sd, raw_term),
                                  sd, term_lc),
                        nodes, term_lc).results

\* search(Json(search)): the four passes run one after the other on the
\* same results and seen.
search(term, sd, nodes) ==
    LET raw_term == trim(term)
        term_lc == to_lowercase(raw_term)
        exact_ip == ParseIpAddr(raw_term)
        p1 == FirstPass(NoResults, sd, exact_ip)
        p2 == SecondPass(p1, sd, raw_term)
        p3 == ThirdPass(p2, sd, term_lc)
        p4 == FourthPass(p3, nodes, term_lc)
    IN  p4.results

\* ------------------------------------------------- search.rs: input spaces
\* ConfigShapedDevices: the device list and the LPM trie built from it, as
\* the entries (network, index into devices) in iteration order.
EmptyCatalog == [devices |-> <<>>, trie |-> <<>>]

SmallCatalog ==
    [devices |->
        << [circuit_id |-> <<"c", "1">>, circuit_name |-> <<"T", "o", "w", "e", "r">>,
            device_name |-> <<"C", "p", "e", "-", "1", "0", ".", "1", ".", "2", ".", "3">>],
           [circuit_id |-> <<"c", "1">>, circuit_name |-> <<"T", "o", "w", "e", "r">>,
            device_name |-> <<"c", "p", "e", "2">>],
           [circuit_id |-> <<"c", "2">>, circuit_name |-> <<"c", "p", "e", " ", "f", "a", "r", "m">>,
            device_name |-> <<"R", "a", "d", "i", "o">>] >>,
     trie |->
        << [net |-> MappedNet(10, 1, 0, 0, 112), idx |-> 0],
           [net |-> MappedNet(10, 1, 2, 0, 120), idx |-> 1],
           [net |-> MappedNet(10, 1, 2, 32, 123), idx |-> 2],
           [net |-> MappedNet(10, 2, 0, 0, 112), idx |-> 2] >>]

\* more devices than a response holds, two to a circuit, each device on a
\* network of its own
BigCatalog ==
    [devices |->
        [i \in 1..(MAX_RESULTS + ExtraEntries) |->
            [circuit_id |-> DisplayChars(i \div 2),
             circuit_name |-> <<"c", "p", "e", " ", "c", "i", "r", "c", "u", "i", "t", " ">>
                                  \o DisplayChars(i \div 2),
             device_name |-> <<"c", "p", "e">> \o DisplayChars(i)]],
     trie |->
        [i \in 1..(MAX_RESULTS + ExtraEntries) |->
            [net |-> MappedNet(10, 3, i, 0, 120), idx |-> i - 1]]]

Catalogs == {EmptyCatalog, SmallCatalog, BigCatalog}

\* the node names of network.json
NodeLists ==
    { <<>>,
      << <<"T", "o", "w", "e", "r", " ", "S", "i", "t", "e">>, <<"C", "P", "E", " ", "h", "u", "b">>, <<"p", "o", "p", " ", "1", "0", ".", "1", ".", "2", ".", "3">> >>,
      [i \in 1..(MAX_RESULTS + ExtraEntries) |-> <<"c", "p", "e", " ", "s", "i", "t", "e">>] }

SearchTerms ==
    { <<"1", "0", ".", "1", ".", "2", ".", "3">>,
      <<" ", "1", "0", ".", "1", ".", "2", ".", "3", " ">>,
      <<"1", "0", ".", "1", ".">>,
      <<":", ":", "f", "f", "f", "f", ":", "1", "0", ".", "1">>,
      <<":", ":", "f", "f", "f", "f", ":", "1", "0", ".", "1", ".", "2", ".", "3">>,
      <<"1", "0", ".", "1", ".", "0", ".", "0", "/", "1", "6">>,
      <<"1", "0", ".", "3", ".", "0", ".", "0", "/", "1", "6">>,
      <<"1", "0", ".", "1", ".", "2", ".", "1", "/", "2", "4">>,
      <<"c", "p", "e">>,
      <<"C", "P", "E">>,
      <<"t", "o", "w", "e", "r">>,
      <<"c", "p">>,
      <<>>,
      <<"1", "0", ".", "9", ".", "9", ".", "9">>,
      <<"r", "a", "d", "i", "o">>,
      <<"1", "0", ".", "3", ".", "1", ".", "7">> }

\* ============================ lqos_overrides/src/overrides_file.rs
OverrideFile(pd, ca, na) ==
    [persistent_devices |-> pd, circuit_adjustments |-> ca,
     network_adjustments |-> na]

\* OverrideFile::default()
DefaultOverrideFile == OverrideFile(<<>>, <<>>, <<>>)

\* CircuitAdjustment::RemoveCircuit { circuit_id }
RemoveCircuit(circuit_id) ==
    [type |-> "remove_circuit", circuit_id |-> circuit_id]

\* The content of lqos_overrides.json: no file, the bytes of a JSON text in
\* one of serde_json's two layouts, or bytes that are no JSON text (what a
\* write that failed half way leaves behind).
MissingFile == [json |-> "missing", data |-> DefaultOverrideFile]
TruncatedFile == [json |-> "truncated", data |-> DefaultOverrideFile]

\* serde_json::to_string
to_string(o) == [json |-> "compact", data |-> o]

\* serde_json::to_string_pretty
to_string_pretty(o) == [json |-> "pretty", data |-> o]

\* serde_json::from_str: whitespace between the tokens does not matter
from_str(bytes) ==
    IF bytes.json \in {"compact", "pretty"}
    THEN [ok |-> TRUE, value |-> bytes.data]
    ELSE [ok |-> FALSE, value |-> DefaultOverrideFile]

\* path.exists()
exists(bytes) == bytes.json # "missing"

\* if !path.exists() { ... write the default ... }
NeedsCreate_Always(bytes) == TRUE

NeedsCreate(bytes) == ~exists(bytes)

\* std::fs::write that returns Err: the file could not be opened (nothing
\* changes) or was truncated and not written to the end.
WriteFailures(bytes) == {bytes, TruncatedFile}

\* the callers of load and save
Clients == {"lqosd", "scheduler"}

\* FileLock::new(): the advisory lock is granted when no one holds it.
CanAcquire_Always(holders) == TRUE

CanAcquire(holders) == holders = {}

\* the positions of a call at which the FileLock value `lock` is alive
LockedPositions ==
    {"load_config", "load_exists", "load_create", "load_read", "load_parse",
     "save_config", "save_write"}

\* the positions whose step touches lqos_overrides.json
FilePositions == {"load_exists", "load_create", "load_read", "save_write"}

NoReturn == [call |-> "none", err |-> "none", value |-> DefaultOverrideFile,
             created |-> FALSE, fresh |-> FALSE]

\* lqos_config::ShapedDevice, by the two fields the list operations read and
\* one that they do not
ShapedDevice(device_id, circuit_id, comment) ==
    [device_id |-> device_id, circuit_id |-> circuit_id, comment |-> comment]

DeviceIds == {"d1", "d2", "d3"}
CircuitIds == {"c1", "c2"}

ShapedDevices ==
    { ShapedDevice(d, c, k) : d \in DeviceIds, c \in CircuitIds,
                              k \in {"", "moved"} }

\* self.persistent_devices.retain(|d| d.device_id != device_id)
RetainOtherDevices(list, device_id) ==
    LET keep(d) == d.device_id # device_id
    IN  SelectSeq(list, keep)

\* self.persistent_devices.retain(|d| d.circuit_id != circuit_id)
RetainOtherCircuits(list, circuit_id) ==
    LET keep(d) == d.circuit_id # circuit_id
    IN  SelectSeq(list, keep)

\* Mutant: the device is pushed without removing the one it replaces.
add_persistent_shaped_device_return_changed_NoRetain(list, device) ==
    LET same == { i \in 1..Len(list) :
                    list[i].device_id = device.device_id }
        first == CHOOSE i \in same : \A j \in same : i <= j
    IN  IF same # {} /\ list[first] = device
        THEN [changed |-> FALSE, list |-> list]
        ELSE [changed |-> TRUE, list |-> Append(list, device)]

\* add_persistent_shaped_device_return_changed: [changed, list afterwards]
add_persistent_shaped_device_return_changed(list, device) ==
    LET same == { i \in 1..Len(list) :
                    list[i].device_id = device.device_id }
        first == CHOOSE i \in same : \A j \in same : i <= j
    IN  IF same # {} /\ list[first] = device
        THEN [changed |-> FALSE, list |-> list]
        ELSE [changed |-> TRUE,
              list |-> Append(RetainOtherDevices(list, device.device_id),
                              device)]

\* remove_persistent_shaped_device_by_circuit_count: [count, list afterwards]
remove_persistent_shaped_device_by_circuit_count(list, circuit_id) ==
    LET after == RetainOtherCircuits(list, circuit_id)
    IN  [count |-> Max(0, Len(list) - Len(after)), list |-> after]

\* remove_persistent_shaped_device_by_device_count: [count, list afterwards]
remove_persistent_shaped_device_by_device_count(list, device_id) ==
    LET after == RetainOtherDevices(list, device_id)
    IN  [count |-> Max(0, Len(list) - Len(after)), list |-> after]

\* A caller's progress through one cycle of load, add one adjustment, save:
\* "start", "loading", "loaded", "added", "saving", "saved"; "off" once the
\* caller did anything else or a call of the cycle returned Err.
CycleAfterReturn(stage, r) ==
    IF r.err # "none" THEN "off"
    ELSE IF stage = "loading" /\ r.call = "load" THEN "loaded"
    ELSE IF stage = "saving" /\ r.call = "save" THEN "saved"
    ELSE "off"

NoListCall == [call |-> "none", device |-> ShapedDevice("", "", ""),
               before |-> <<>>, changed |-> FALSE, count |-> 0]

\* ------------------------------------------------------------------- state
VARIABLES
    config,          \* the loaded configuration snapshot
    op,              \* the last encoder call: "idle", "to_commands", "to_prune"
    cmd,             \* the command the last call was made on
    execution_mode,  \* its execution_mode argument (to_commands)
    force,           \* its force argument (to_prune)
    result,          \* what the last call returned
    probe,           \* history: one (command, mode) input that is followed
    probe_result,    \* history: what to_commands first returned for it
    mq_tc,           \* the tc runner's view of MqSetup's commands
    SHAPED_DEVICES,  \* shaped_devices_tracker::SHAPED_DEVICES
    NETWORK_JSON,    \* shaped_devices_tracker::NETWORK_JSON, the node names
    search_request,  \* the last SearchRequest: [some, term]
    search_response, \* the results the handler returned for it
    override_file,   \* the content of lqos_overrides.json
    lock_holders,    \* the callers holding the advisory lock
    pc,              \* each caller's position in load / save
    self_value,      \* each caller's OverrideFile value
    raw,             \* each caller's `raw` (load)
    ret,             \* what each caller's last call returned
    missing_seen,    \* history: the running load found no file
    fresh,           \* history: a load created the file, no save wrote since
    fresh_loads,     \* history: loads that returned Ok since then (capped)
    cycle,           \* history: each caller's progress through load, add, save
    list_call        \* history: the last call on the persistent device list

bakery_vars ==
    <<config, MQ_CREATED, op, cmd, execution_mode, force, result,
      probe, probe_result, mq_tc>>

search_vars ==
    <<SHAPED_DEVICES, NETWORK_JSON, search_request, search_response>>

override_vars ==
    <<override_file, lock_holders, pc, self_value, raw, ret, missing_seen,
      fresh, fresh_loads, cycle>>

list_vars == <<list_call>>

vars == <<bakery_vars, search_vars, override_vars, list_vars>>

\* No input is followed.
NoProbe == [cmd |-> [type |-> "Tick"], mode |-> "none"]

\* The inputs whose results are followed across calls.
Probes ==
    { [cmd |-> [type |-> "MqSetup", queues_available |-> 1,
                stick_offset |-> 1],
       mode |-> "Builder"],
      [cmd |-> CHOOSE c \in AddCircuitCommands :
                   c.class_minor = 255 /\ c.download_bandwidth_max = 996,
       mode |-> "LiveUpdate"] }

IsProbe(c, mode) ==
    probe.mode = mode /\ probe.cmd.type = c.type /\ probe.cmd = c

\* No search has been requested; the catalog is empty.
SearchIdle ==
    /\ SHAPED_DEVICES = EmptyCatalog
    /\ NETWORK_JSON = <<>>
    /\ search_request = [some |-> FALSE, term |-> <<>>]
    /\ search_response = <<>>

\* No caller is in load or save; every caller holds the default value.
OverridesQuiet ==
    /\ lock_holders = {}
    /\ pc = [c \in Clients |-> "idle"]
    /\ self_value = [c \in Clients |-> DefaultOverrideFile]
    /\ raw = [c \in Clients |-> MissingFile]
    /\ ret = [c \in Clients |-> NoReturn]
    /\ missing_seen = [c \in Clients |-> FALSE]
    /\ fresh = FALSE
    /\ fresh_loads = 0
    /\ cycle = [c \in Clients |-> "start"]
    /\ list_call = NoListCall

OverridesIdle ==
    /\ OverridesQuiet
    /\ override_file = MissingFile

BakeryInit ==
    /\ config \in Configs
    /\ MQ_CREATED = FALSE
    /\ op = "idle"
    /\ cmd = [type |-> "Tick"]
    /\ execution_mode = "Builder"
    /\ force = FALSE
    /\ result = None
    /\ probe_result = [set |-> FALSE, again |-> FALSE, r |-> None]
    /\ mq_tc = [pending |-> FALSE, succeeded |-> FALSE]

\* The encoder has not been called, under one fixed configuration.
BakeryIdle ==
    /\ BakeryInit
    /\ config = CHOOSE c \in Configs : TRUE
    /\ probe = NoProbe

Init ==
    /\ BakeryInit
    /\ probe = NoProbe
    /\ SearchIdle
    /\ OverridesIdle

\* self.to_commands(&config, mode); mq_setup stores true into MQ_CREATED.
ToCommands(c, mode) ==
    /\ op' = "to_commands"
    /\ cmd' = c
    /\ execution_mode' = mode
    /\ result' = to_commands(c, config, mode)
    /\ MQ_CREATED' = (MQ_CREATED \/ c.type = "MqSetup")
    /\ probe_result' =
         IF ~IsProbe(c, mode) THEN probe_result
         ELSE IF ~probe_result.set
              THEN [set |-> TRUE, again |-> FALSE, r |-> result']
              ELSE [probe_result EXCEPT !.again = TRUE]
    /\ mq_tc' = IF c.type = "MqSetup"
                THEN [mq_tc EXCEPT !.pending = TRUE]
                ELSE mq_tc
    /\ UNCHANGED <<config, force, probe, search_vars, override_vars,
                   list_vars>>

\* self.to_prune(&config, force)
ToPrune(c, f) ==
    /\ op' = "to_prune"
    /\ cmd' = c
    /\ force' = f
    /\ result' = to_prune(c, config, f)
    /\ UNCHANGED <<config, MQ_CREATED, execution_mode, probe, probe_result,
                   mq_tc, search_vars, override_vars,
                   list_vars>>

Next ==
    \/ \E c \in BakeryCommands, mode \in ExecutionMode : ToCommands(c, mode)
    \/ \E c \in BakeryCommands, f \in BOOLEAN : ToPrune(c, f)

Spec == Init /\ [][Next]_vars

\* The same calls, with one input followed from the first call on.
InitReplay ==
    /\ BakeryInit
    /\ config.uplink_bandwidth_mbps = 1000
    /\ probe \in Probes
    /\ SearchIdle
    /\ OverridesIdle

SpecReplay == InitReplay /\ [][Next]_vars

\* The executor dispatches the argv vectors of an encoded MqSetup to the tc
\* runner, which reports success or a non-zero exit (DispatchFailure).
RunTc(ok) ==
    /\ mq_tc.pending
    /\ mq_tc' = [pending |-> FALSE, succeeded |-> (mq_tc.succeeded \/ ok)]
    /\ UNCHANGED <<config, MQ_CREATED, op, cmd, execution_mode, force,
                   result, probe, probe_result, search_vars, override_vars,
                   list_vars>>

NextExec ==
    \/ Next
    \/ \E ok \in BOOLEAN : RunTc(ok)

SpecExec == Init /\ [][NextExec]_vars

\* MqSetup alone, over every pair of small link capacities.
CapacityConfigs ==
    { [isp |-> "eth0", internet |-> "eth1", on_a_stick |-> s,
       uplink_bandwidth_mbps |-> u, downlink_bandwidth_mbps |-> d,
       lazy_queues |-> "No", monitor_only |-> FALSE,
       default_sqm |-> <<"cake", "diffserv4">>] :
      s \in BOOLEAN, u \in 0..MaxCapacity, d \in 0..MaxCapacity }

InitCapacity ==
    /\ config \in CapacityConfigs
    /\ MQ_CREATED = FALSE
    /\ op = "idle"
    /\ cmd = [type |-> "Tick"]
    /\ execution_mode = "Builder"
    /\ force = FALSE
    /\ result = None
    /\ probe_result = [set |-> FALSE, again |-> FALSE, r |-> None]
    /\ mq_tc = [pending |-> FALSE, succeeded |-> FALSE]
    /\ probe = NoProbe
    /\ SearchIdle
    /\ OverridesIdle

NextCapacity == \E c \in MqSetupCommands : ToCommands(c, "Builder")

SpecCapacity == InitCapacity /\ [][NextCapacity]_vars

\* ------------------------------------------------- the search handler
InitSearch ==
    /\ BakeryIdle
    /\ OverridesIdle
    /\ SHAPED_DEVICES \in Catalogs
    /\ NETWORK_JSON \in NodeLists
    /\ search_request = [some |-> FALSE, term |-> <<>>]
    /\ search_response = <<>>

\* POST of a SearchRequest: search(Json(search)) -> Json(results)
Search(term) ==
    /\ search_request' = [some |-> TRUE, term |-> term]
    /\ search_response' = search(term, SHAPED_DEVICES, NETWORK_JSON)
    /\ UNCHANGED <<SHAPED_DEVICES, NETWORK_JSON, bakery_vars, override_vars,
                   list_vars>>

NextSearch == \E term \in SearchTerms : Search(term)

SpecSearch == InitSearch /\ [][NextSearch]_vars

\* ------------------------------------------- OverrideFile::load and save
InitOverrides ==
    /\ BakeryIdle
    /\ SearchIdle
    /\ OverridesQuiet
    /\ override_file \in
         {MissingFile,
          to_string_pretty(OverrideFile(<<>>, <<RemoveCircuit("seed")>>,
                                        <<>>))}

\* the call returns r; `lock`, if the call holds it, is dropped
Return(c, r) ==
    /\ pc' = [pc EXCEPT ![c] = "idle"]
    /\ lock_holders' = lock_holders \ {c}
    /\ raw' = [raw EXCEPT ![c] = MissingFile]
    /\ ret' = [ret EXCEPT ![c] = r]
    /\ cycle' = [cycle EXCEPT ![c] = CycleAfterReturn(@, r)]

Failed(c, err) ==
    [call |-> IF pc[c] \in {"save_lock", "save_config", "save_write"}
              THEN "save" ELSE "load",
     err |-> err, value |-> DefaultOverrideFile, created |-> FALSE,
     fresh |-> FALSE]

\* a caller enters OverrideFile::load()
CallLoad(c) ==
    /\ pc[c] = "idle"
    /\ pc' = [pc EXCEPT ![c] = "load_lock"]
    /\ missing_seen' = [missing_seen EXCEPT ![c] = FALSE]
    /\ cycle' = [cycle EXCEPT ![c] = IF @ = "start" THEN "loading"
                                      ELSE "off"]
    /\ UNCHANGED <<override_file, lock_holders, self_value, raw, ret,
                   fresh, fresh_loads, bakery_vars, search_vars,
                   list_vars>>

\* a caller enters self.save()
CallSave(c) ==
    /\ pc[c] = "idle"
    /\ pc' = [pc EXCEPT ![c] = "save_lock"]
    /\ cycle' = [cycle EXCEPT ![c] = IF @ = "added" THEN "saving"
                                      ELSE "off"]
    /\ UNCHANGED <<override_file, lock_holders, self_value, raw, ret,
                   missing_seen, fresh, fresh_loads, bakery_vars,
                   search_vars,
                   list_vars>>

\* let lock = FileLock::new()?  -- granted
FileLockNew(c) ==
    /\ pc[c] \in {"load_lock", "save_lock"}
    /\ CanAcquire(lock_holders)
    /\ lock_holders' = lock_holders \cup {c}
    /\ pc' = [pc EXCEPT ![c] = IF pc[c] = "load_lock" THEN "load_config"
                                ELSE "save_config"]
    /\ UNCHANGED <<cycle, override_file, self_value, raw, ret, missing_seen,
                   fresh, fresh_loads, bakery_vars, search_vars,
                   list_vars>>

\* let lock = FileLock::new()?  -- Err: the call returns without the lock
FileLockErr(c) ==
    /\ pc[c] \in {"load_lock", "save_lock"}
    /\ Return(c, Failed(c, "lock"))
    /\ UNCHANGED <<override_file, self_value, missing_seen, fresh,
                   fresh_loads, bakery_vars, search_vars,
                   list_vars>>

\* let config = lqos_config::load_config()?
LoadConfig(c, ok) ==
    /\ pc[c] \in {"load_config", "save_config"}
    /\ IF ok
       THEN /\ pc' = [pc EXCEPT ![c] = IF pc[c] = "load_config"
                                       THEN "load_exists"
                                       ELSE "save_write"]
            /\ UNCHANGED <<lock_holders, raw, ret, cycle>>
       ELSE Return(c, Failed(c, "config"))
    /\ UNCHANGED <<override_file, self_value, missing_seen, fresh,
                   fresh_loads, bakery_vars, search_vars,
                   list_vars>>

\* if !path.exists()
PathExists(c) ==
    /\ pc[c] = "load_exists"
    /\ pc' = [pc EXCEPT ![c] = IF NeedsCreate(override_file)
                                THEN "load_create" ELSE "load_read"]
    /\ missing_seen' = [missing_seen EXCEPT ![c] = ~exists(override_file)]
    /\ UNCHANGED <<cycle, override_file, lock_holders, self_value, raw, ret,
                   fresh, fresh_loads, bakery_vars, search_vars,
                   list_vars>>

\* std::fs::write(&path, to_string(&OverrideFile::default())?)?
LoadCreate(c, ok) ==
    /\ pc[c] = "load_create"
    /\ IF ok
       THEN /\ override_file' = to_string(DefaultOverrideFile)
            /\ pc' = [pc EXCEPT ![c] = "load_read"]
            /\ fresh' = missing_seen[c]
            /\ fresh_loads' = 0
            /\ UNCHANGED <<lock_holders, raw, ret, cycle>>
       ELSE /\ override_file' \in WriteFailures(override_file)
            /\ Return(c, Failed(c, "write"))
            /\ UNCHANGED <<fresh, fresh_loads>>
    /\ UNCHANGED <<self_value, missing_seen, bakery_vars, search_vars,
                   list_vars>>

\* let raw = read_to_string(path)?
LoadRead(c, ok) ==
    /\ pc[c] = "load_read"
    /\ IF ok
       THEN /\ raw' = [raw EXCEPT ![c] = override_file]
            /\ pc' = [pc EXCEPT ![c] = "load_parse"]
            /\ UNCHANGED <<lock_holders, ret, cycle>>
       ELSE Return(c, Failed(c, "read"))
    /\ UNCHANGED <<override_file, self_value, missing_seen, fresh,
                   fresh_loads, bakery_vars, search_vars,
                   list_vars>>

\* let as_json = serde_json::from_str(&raw)?; drop(lock); Ok(as_json)
LoadParse(c) ==
    /\ pc[c] = "load_parse"
    /\ IF from_str(raw[c]).ok
       THEN /\ Return(c, [call |-> "load", err |-> "none",
                          value |-> from_str(raw[c]).value,
                          created |-> missing_seen[c], fresh |-> fresh])
            /\ self_value' = [self_value EXCEPT ![c] = from_str(raw[c]).value]
            /\ fresh_loads' = IF fresh THEN Min(fresh_loads + 1, 2)
                              ELSE fresh_loads
       ELSE /\ Return(c, Failed(c, "parse"))
            /\ UNCHANGED <<self_value, fresh_loads>>
    /\ UNCHANGED <<override_file, missing_seen, fresh, bakery_vars,
                   search_vars,
                   list_vars>>

\* std::fs::write(&path, to_string_pretty(self)?)?; drop(lock); Ok(())
SaveWrite(c, ok) ==
    /\ pc[c] = "save_write"
    /\ IF ok
       THEN /\ override_file' = to_string_pretty(self_value[c])
            /\ Return(c, [call |-> "save", err |-> "none",
                          value |-> DefaultOverrideFile,
                          created |-> FALSE, fresh |-> FALSE])
       ELSE /\ override_file' \in WriteFailures(override_file)
            /\ Return(c, Failed(c, "write"))
    /\ fresh' = FALSE
    /\ UNCHANGED <<self_value, missing_seen, fresh_loads, bakery_vars,
                   search_vars,
                   list_vars>>

\* self.add_circuit_adjustment(adj), between a load and a save
AddCircuitAdjustment(c) ==
    /\ pc[c] = "idle"
    /\ Len(self_value[c].circuit_adjustments) < MaxAdjustments
    /\ self_value' =
         [self_value EXCEPT ![c].circuit_adjustments =
              Append(@, RemoveCircuit(c))]
    /\ cycle' = [cycle EXCEPT ![c] = IF @ = "loaded" THEN "added"
                                      ELSE "off"]
    /\ UNCHANGED <<override_file, lock_holders, pc, raw, ret, missing_seen,
                   fresh, fresh_loads, bakery_vars, search_vars,
                   list_vars>>

NextOverrides ==
    \E c \in Clients :
        \/ CallLoad(c)
        \/ CallSave(c)
        \/ FileLockNew(c)
        \/ FileLockErr(c)
        \/ \E ok \in BOOLEAN : LoadConfig(c, ok)
        \/ PathExists(c)
        \/ \E ok \in BOOLEAN : LoadCreate(c, ok)
        \/ \E ok \in BOOLEAN : LoadRead(c, ok)
        \/ LoadParse(c)
        \/ \E ok \in BOOLEAN : SaveWrite(c, ok)
        \/ AddCircuitAdjustment(c)

SpecOverrides == InitOverrides /\ [][NextOverrides]_vars

\* ------------------------------------- the persistent device list calls
\* the caller whose OverrideFile value the list calls act on
Editor == CHOOSE c \in Clients : c = "lqosd"

InitDevices ==
    /\ BakeryIdle
    /\ SearchIdle
    /\ OverridesIdle

\* self.add_persistent_shaped_device_return_changed(device)
AddPersistentShapedDevice(device) ==
    LET before == self_value[Editor].persistent_devices
        r == add_persistent_shaped_device_return_changed(before, device)
    IN  /\ self_value' =
             [self_value EXCEPT ![Editor].persistent_devices = r.list]
        /\ list_call' = [call |-> "add", device |-> device,
                         before |-> before, changed |-> r.changed,
                         count |-> 0]
        /\ UNCHANGED <<cycle, override_file, lock_holders, pc, raw, ret,
                       missing_seen, fresh, fresh_loads, bakery_vars,
                       search_vars>>

\* self.remove_persistent_shaped_device_by_circuit_count(circuit_id)
RemoveByCircuit(circuit_id) ==
    LET before == self_value[Editor].persistent_devices
        r == remove_persistent_shaped_device_by_circuit_count(before,
                                                              circuit_id)
    IN  /\ self_value' =
             [self_value EXCEPT ![Editor].persistent_devices = r.list]
        /\ list_call' = [call |-> "remove_by_circuit",
                         device |-> ShapedDevice("", circuit_id, ""),
                         before |-> before, changed |-> FALSE,
                         count |-> r.count]
        /\ UNCHANGED <<cycle, override_file, lock_holders, pc, raw, ret,
                       missing_seen, fresh, fresh_loads, bakery_vars,
                       search_vars>>

\* self.remove_persistent_shaped_device_by_device_count(device_id)
RemoveByDevice(device_id) ==
    LET before == self_value[Editor].persistent_devices
        r == remove_persistent_shaped_device_by_device_count(before,
                                                             device_id)
    IN  /\ self_value' =
             [self_value EXCEPT ![Editor].persistent_devices = r.list]
        /\ list_call' = [call |-> "remove_by_device",
                         device |-> ShapedDevice(device_id, "", ""),
                         before |-> before, changed |-> FALSE,
                         count |-> r.count]
        /\ UNCHANGED <<cycle, override_file, lock_holders, pc, raw, ret,
                       missing_seen, fresh, fresh_loads, bakery_vars,
                       search_vars>>

NextDevices ==
    \/ \E device \in ShapedDevices : AddPersistentShapedDevice(device)
    \/ \E circuit_id \in CircuitIds : RemoveByCircuit(circuit_id)
    \/ \E device_id \in DeviceIds : RemoveByDevice(device_id)

SpecDevices == InitDevices /\ [][NextDevices]_vars

\* ===================================================== properties checked
\* argv is a `<a> <b> ...` command (e.g. class replace, qdisc del).
IsKind(argv, a, b) == Len(argv) >= 2 /\ argv[1] = a /\ argv[2] = b

\* The argv vectors the last call emitted (none when it returned None).
Emitted == IF result.some THEN result.v ELSE <<>>

Positions(a, b) == { i \in 1..Len(Emitted) : IsKind(Emitted[i], a, b) }
Count(a, b) == Cardinality(Positions(a, b))

CalledToCommands(type) == op = "to_commands" /\ cmd.type = type
CalledToPrune(type) == op = "to_prune" /\ cmd.type = type

\* lazy None is treated as No
LazyOf(cfg) == IF cfg.lazy_queues = "None" THEN "No" ELSE cfg.lazy_queues

\* §4.4, decision table for AddCircuit: <<'class replace', 'qdisc replace'>>
ExpectedAddCircuitCounts(mode, lazy) ==
    CASE mode = "Builder" /\ lazy = "No" -> <<2, 2>>
      [] mode = "Builder" /\ lazy = "Htb" -> <<2, 0>>
      [] mode = "Builder" /\ lazy = "Full" -> <<0, 0>>
      [] mode = "LiveUpdate" /\ lazy = "No" -> <<0, 0>>
      [] mode = "LiveUpdate" /\ lazy = "Htb" -> <<0, 2>>
      [] mode = "LiveUpdate" /\ lazy = "Full" -> <<2, 2>>

\* C1: with monitor_only = false, to_commands on an AddCircuit emits the
\* number of 'class replace' and 'qdisc replace' commands the lazy decision
\* table gives for its (mode, lazy) cell, lazy None counting as No, and
\* (Builder, Full) returns no commands at all.
C1_LazyTable ==
    (CalledToCommands("AddCircuit") /\ ~config.monitor_only) =>
        LET e == ExpectedAddCircuitCounts(execution_mode, LazyOf(config))
        IN /\ Count("class", "replace") = e[1]
           /\ Count("qdisc", "replace") = e[2]
           /\ Len(Emitted) = e[1] + e[2]
           /\ (execution_mode = "Builder" /\ LazyOf(config) = "Full"
                 => ~result.some)

C1_Witness ==
    /\ CalledToCommands("AddCircuit")
    /\ ~config.monitor_only
    /\ execution_mode = "LiveUpdate"
    /\ config.lazy_queues = "Htb"
    /\ Count("qdisc", "replace") = 2
    /\ Count("class", "replace") = 0

\* C2: to_prune on an AddCircuit follows the prune decision table: forced,
\* it deletes both the SQM qdiscs and the HTB classes under any lazy mode;
\* unforced, it returns None under lazy No/None, emits only 'qdisc del'
\* under lazy Htb, and both 'qdisc del' and 'class del' under lazy Full.
C2_PruneTable ==
    CalledToPrune("AddCircuit") =>
        CASE force ->
                /\ result.some
                /\ Count("qdisc", "del") >= 1
                /\ Count("class", "del") >= 1
          [] ~force /\ LazyOf(config) = "No" -> ~result.some
          [] ~force /\ LazyOf(config) = "Htb" ->
                /\ result.some
                /\ Count("qdisc", "del") >= 1
                /\ Count("class", "del") = 0
                /\ Count("qdisc", "del") = Len(Emitted)
          [] ~force /\ LazyOf(config) = "Full" ->
                /\ result.some
                /\ Count("qdisc", "del") >= 1
                /\ Count("class", "del") >= 1

C2_Witness ==
    /\ CalledToPrune("AddCircuit")
    /\ ~force
    /\ config.lazy_queues = "Htb"
    /\ result.some
    /\ Count("qdisc", "del") = Len(Emitted)
    /\ Len(Emitted) >= 1

\* The argv §4.2 gives for a StormGuardAdjustment.
StormGuardArgv(c) ==
    <<"class", "change", "dev", c.interface_name, "classid", c.class_id,
      "htb", "rate", Display(c.new_rate - 1) \o "mbit",
      "ceil", Display(c.new_rate) \o "mbit">>

\* C3 as stated: to_commands on a StormGuardAdjustment emits exactly the one
\* 'class change' argv.
C3_Original ==
    CalledToCommands("StormGuardAdjustment") =>
        result = Some(<< StormGuardArgv(cmd) >>)

\* C3: to_commands on a StormGuardAdjustment returns None, in both execution
\* modes and for both values of dry_run: the encoder emits no argv for it.
C3_StormGuardNotEncoded ==
    CalledToCommands("StormGuardAdjustment") =>
        (~result.some /\ Len(Emitted) = 0)

C3_Witness ==
    /\ CalledToCommands("StormGuardAdjustment")
    /\ cmd.dry_run
    /\ cmd.new_rate = 500
    /\ execution_mode = "LiveUpdate"
    /\ ~result.some

\* C4 as stated: to_commands on a ChangeSiteSpeedLive emits exactly two
\* 'class change' commands, ISP interface then Internet interface.
C4_Original ==
    CalledToCommands("ChangeSiteSpeedLive") =>
        /\ result.some
        /\ Len(Emitted) = 2
        /\ IsKind(Emitted[1], "class", "change")
        /\ Emitted[1][4] = isp_interface(config)
        /\ IsKind(Emitted[2], "class", "change")
        /\ Emitted[2][4] = internet_interface(config)

\* C4: to_commands on a ChangeSiteSpeedLive returns None in both execution
\* modes: the encoder emits neither a 'class change' nor any command that
\* creates topology for it.
C4_ChangeSiteSpeedNotEncoded ==
    CalledToCommands("ChangeSiteSpeedLive") =>
        (~result.some /\ Len(Emitted) = 0)

C4_Witness ==
    /\ CalledToCommands("ChangeSiteSpeedLive")
    /\ cmd.download_bandwidth_max = 10000
    /\ execution_mode = "LiveUpdate"
    /\ ~result.some

\* Tokens a..b of argv (empty when argv is shorter than b).
Slice(argv, a, b) == IF Len(argv) >= b THEN SubSeq(argv, a, b) ELSE <<>>

\* Emitted[i..i+4] is the five-command block {htb qdisc, main class, main
\* SQM, default class, default SQM} of queue index n on interface iface.
IsQueueBlockAt(i, iface, n) ==
    LET h == "0x" \o LowerHex(n)
    IN /\ i + 4 <= Len(Emitted)
       /\ \A k \in i..(i + 4) : Emitted[k][3] = "dev" /\ Emitted[k][4] = iface
       /\ IsKind(Emitted[i], "qdisc", "add")
       /\ Slice(Emitted[i], 5, 11)
            = <<"parent", "7FFF:" \o h, "handle", h \o ":",
                "htb", "default", "2">>
       /\ IsKind(Emitted[i + 1], "class", "add")
       /\ Slice(Emitted[i + 1], 5, 9)
            = <<"parent", h \o ":", "classid", h \o ":1", "htb">>
       /\ IsKind(Emitted[i + 2], "qdisc", "add")
       /\ Slice(Emitted[i + 2], 5, 6) = <<"parent", h \o ":1">>
       /\ IsKind(Emitted[i + 3], "class", "add")
       /\ Slice(Emitted[i + 3], 5, 9)
            = <<"parent", h \o ":1", "classid", h \o ":2", "htb">>
       /\ IsKind(Emitted[i + 4], "qdisc", "add")
       /\ Slice(Emitted[i + 4], 5, 6) = <<"parent", h \o ":2">>

RootDels(iface) ==
    { i \in 1..Len(Emitted) :
        Emitted[i] = <<"qdisc", "del", "dev", iface, "root">> }

MqReplaces(iface) ==
    { i \in 1..Len(Emitted) :
        Emitted[i] = <<"qdisc", "replace", "dev", iface, "root", "handle",
                       "7FFF:", "mq">> }

\* The positions at which a queue block of index n on iface starts.
BlockStarts(iface, n) ==
    { i \in 1..Len(Emitted) : IsQueueBlockAt(i, iface, n) }

\* C5: not on-a-stick, MqSetup with Q queues emits exactly 4 + 10*Q argv
\* vectors: one root 'qdisc del' and one 'qdisc replace ... root handle
\* 7FFF: mq' per interface, and for each interface and each queue exactly
\* one five-command block.
C5_MqSetupCount ==
    (CalledToCommands("MqSetup") /\ ~config.on_a_stick) =>
        LET Q == cmd.queues_available
        IN /\ result.some
           /\ Len(Emitted) = 4 + 10 * Q
           /\ Cardinality(Positions("qdisc", "del")) = 2
           /\ Cardinality(RootDels(config.isp)) = 1
           /\ Cardinality(RootDels(config.internet)) = 1
           /\ Cardinality(Positions("qdisc", "replace")) = 2
           /\ Cardinality(MqReplaces(config.isp)) = 1
           /\ Cardinality(MqReplaces(config.internet)) = 1
           /\ Count("qdisc", "add") = 6 * Q
           /\ Count("class", "add") = 4 * Q
           /\ \A q \in 0..(Q - 1) :
                /\ Cardinality(BlockStarts(config.isp, q + 1)) = 1
                /\ Cardinality(BlockStarts(config.internet,
                                           q + cmd.stick_offset + 1)) = 1

C5_Witness ==
    /\ CalledToCommands("MqSetup")
    /\ ~config.on_a_stick
    /\ cmd.queues_available = 2
    /\ cmd.stick_offset = 0
    /\ config.uplink_bandwidth_mbps = 1000
    /\ config.downlink_bandwidth_mbps = 1000
    /\ Len(Emitted) = 24

\* C6: on-a-stick, MqSetup emits exactly one root 'qdisc del' and exactly
\* one 'qdisc replace ... root handle 7FFF: mq', both on the ISP interface,
\* and every command of the second (upload-side) loop is on the ISP
\* interface with queue index queue + stick_offset + 1.
C6_OnAStick ==
    (CalledToCommands("MqSetup") /\ config.on_a_stick) =>
        LET Q == cmd.queues_available
        IN /\ result.some
           /\ Len(Emitted) = 2 + 10 * Q
           /\ Count("qdisc", "del") = 1
           /\ RootDels(config.isp) = {1}
           /\ Count("qdisc", "replace") = 1
           /\ MqReplaces(config.isp) = {2}
           /\ \A i \in 1..Len(Emitted) : Emitted[i][4] = config.isp
           /\ \A q \in 0..(Q - 1) :
                IsQueueBlockAt(2 + 5 * Q + 5 * q + 1, config.isp,
                               q + cmd.stick_offset + 1)

C6_Witness ==
    /\ CalledToCommands("MqSetup")
    /\ config.on_a_stick
    /\ cmd.queues_available = 2
    /\ cmd.stick_offset = 2
    /\ Len(Emitted) = 22
    /\ IsQueueBlockAt(18, config.isp, 4)

BothHtbAndSqm ==
    /\ CalledToCommands("AddCircuit")
    /\ Count("class", "replace") > 0
    /\ Count("qdisc", "replace") > 0

\* C7 as stated: when AddCircuit emits both HTB and SQM commands, no 'qdisc
\* replace' precedes a 'class replace'.
C7_Original ==
    BothHtbAndSqm =>
        \A i \in Positions("qdisc", "replace"),
           j \in Positions("class", "replace") : j < i

\* C7: when AddCircuit emits both HTB and SQM commands it emits exactly
\* four, direction by direction: the download 'class replace' then the
\* download 'qdisc replace' (ISP interface), then the upload 'class
\* replace' then the upload 'qdisc replace' (Internet interface); each
\* direction's class replace immediately precedes its qdisc replace.
C7_PerDirectionOrder ==
    BothHtbAndSqm =>
        /\ Len(Emitted) = 4
        /\ Positions("class", "replace") = {1, 3}
        /\ Positions("qdisc", "replace") = {2, 4}
        /\ Emitted[1][4] = isp_interface(config)
        /\ Emitted[1][6] = as_tc_string(cmd.parent_class_id)
        /\ Emitted[2][4] = isp_interface(config)
        /\ Emitted[2][6] = "0x" \o LowerHex(cmd.class_major) \o ":0x"
                                \o LowerHex(cmd.class_minor)
        /\ Emitted[3][4] = internet_interface(config)
        /\ Emitted[3][6] = as_tc_string(cmd.up_parent_class_id)
        /\ Emitted[4][4] = internet_interface(config)
        /\ Emitted[4][6] = "0x" \o LowerHex(cmd.up_class_major) \o ":0x"
                                \o LowerHex(cmd.class_minor)

C7_Witness ==
    /\ BothHtbAndSqm
    /\ execution_mode = "Builder"
    /\ config.lazy_queues = "No"
    /\ ~config.on_a_stick
    /\ cmd.up_class_major = 11
    /\ Len(Emitted) = 4

\* What AddCircuit emits under (Builder, lazy No) for the circuit and the
\* configuration of the last call.
BuilderAdds ==
    LET r == to_commands(cmd, [config EXCEPT !.lazy_queues = "No"], "Builder")
    IN IF r.some THEN r.v ELSE <<>>

\* del is the delete that undoes add: same interface, and the same class
\* (parent and classid) or the same qdisc (parent).
IsDeleteOf(del, add) ==
    /\ del[4] = add[4]
    /\ \/ /\ IsKind(add, "class", "replace")
          /\ IsKind(del, "class", "del")
          /\ Slice(del, 5, 8) = Slice(add, 5, 8)
       \/ /\ IsKind(add, "qdisc", "replace")
          /\ IsKind(del, "qdisc", "del")
          /\ Slice(del, 5, 6) = Slice(add, 5, 6)

ForcedPrune == CalledToPrune("AddCircuit") /\ force

\* C8 as stated: for every configuration, the forced prune is the inverse
\* of what AddCircuit emits under (Builder, No), delete by delete, in
\* reverse order.
C8_Original ==
    ForcedPrune =>
        /\ result.some
        /\ Len(Emitted) = Len(BuilderAdds)
        /\ \A i \in 1..Len(Emitted) :
             IsDeleteOf(Emitted[i], BuilderAdds[Len(Emitted) + 1 - i])

\* C8: when the configuration is neither on-a-stick nor monitor-only, the
\* forced prune emits exactly one delete for each command AddCircuit emits
\* under (Builder, No), on the same interface and for the same class or
\* qdisc, and nothing else; the deletes are not in reverse emission order
\* but qdiscs first: upload qdisc, download qdisc, download class, upload
\* class, for the adds download class, download qdisc, upload class, upload
\* qdisc.
C8_PruneInverse ==
    (ForcedPrune /\ ~config.on_a_stick /\ ~config.monitor_only) =>
        /\ result.some
        /\ Len(Emitted) = 4
        /\ Len(BuilderAdds) = 4
        /\ \A a \in 1..4 :
             Cardinality({ d \in 1..4 :
                             IsDeleteOf(Emitted[d], BuilderAdds[a]) }) = 1
        /\ \A d \in 1..4 :
             Cardinality({ a \in 1..4 :
                             IsDeleteOf(Emitted[d], BuilderAdds[a]) }) = 1
        /\ IsDeleteOf(Emitted[1], BuilderAdds[4])
        /\ IsDeleteOf(Emitted[2], BuilderAdds[2])
        /\ IsDeleteOf(Emitted[3], BuilderAdds[1])
        /\ IsDeleteOf(Emitted[4], BuilderAdds[3])
        /\ Positions("qdisc", "del") = {1, 2}
        /\ Positions("class", "del") = {3, 4}

C8_Witness ==
    /\ ForcedPrune
    /\ ~config.on_a_stick
    /\ ~config.monitor_only
    /\ cmd.parent_class_id # cmd.up_parent_class_id
    /\ Len(Emitted) = 4
    /\ Len(BuilderAdds) = 4

\* C9: to_commands on an AddSite emits, whatever the mode, lazy mode and
\* monitor_only, exactly two 'class replace' commands at 'prio 3' with
\* classid 0x<class_minor>: the first on the ISP interface under
\* parent_class_id with rate/ceil from download min/max, the second on the
\* Internet interface under up_parent_class_id with rate/ceil from upload
\* min/max; no qdisc command is emitted.
C9_AddSite ==
    CalledToCommands("AddSite") =>
        /\ result.some
        /\ Len(Emitted) = 2
        /\ Count("qdisc", "replace") = 0
        /\ \A i \in 1..2 : Emitted[i][1] = "class"
        /\ SubSeq(Emitted[1], 1, 15)
             = <<"class", "replace", "dev", isp_interface(config),
                 "parent", as_tc_string(cmd.parent_class_id),
                 "classid", "0x" \o LowerHex(cmd.class_minor), "htb",
                 "rate", format_rate_for_tc_f32(cmd.download_bandwidth_min),
                 "ceil", format_rate_for_tc_f32(cmd.download_bandwidth_max),
                 "prio", "3">>
        /\ SubSeq(Emitted[2], 1, 15)
             = <<"class", "replace", "dev", internet_interface(config),
                 "parent", as_tc_string(cmd.up_parent_class_id),
                 "classid", "0x" \o LowerHex(cmd.class_minor), "htb",
                 "rate", format_rate_for_tc_f32(cmd.upload_bandwidth_min),
                 "ceil", format_rate_for_tc_f32(cmd.upload_bandwidth_max),
                 "prio", "3">>

\* The §8 scenario: parent (1,1), minor 0x10, 100/1000 and 50/500 Mbps.
C9_Witness ==
    /\ CalledToCommands("AddSite")
    /\ execution_mode = "LiveUpdate"
    /\ config.lazy_queues = "Full"
    /\ config.monitor_only
    /\ cmd.class_minor = 16
    /\ Len(Emitted) = 2
    /\ SubSeq(Emitted[1], 6, 13)
         = <<"0x1:0x1", "classid", "0x10", "htb",
             "rate", "100mbit", "ceil", "1000mbit">>
    /\ SubSeq(Emitted[2], 10, 15)
         = <<"rate", "50mbit", "ceil", "500mbit", "prio", "3">>

\* C10: to_commands never returns a present but empty list: when nothing is
\* to be executed for the command it returns None.
C10_NeverSomeEmpty ==
    op = "to_commands" => ~(result.some /\ Len(result.v) = 0)

C12_EncoderPure == [][MQ_CREATED' = MQ_CREATED]_vars

\* C13: MQ_CREATED is true only when the tc commands of an MqSetup have
\* been dispatched to the tc runner and have completed successfully.
C13_SetAfterSuccess == MQ_CREATED => mq_tc.succeeded

\* Emitted[i] and Emitted[j] create the same handle on the same device: two
\* 'qdisc add ... handle H' or two 'class add ... classid C'.
SameHandle(i, j) ==
    /\ Emitted[i][4] = Emitted[j][4]
    /\ \/ /\ IsKind(Emitted[i], "qdisc", "add")
          /\ IsKind(Emitted[j], "qdisc", "add")
          /\ Slice(Emitted[i], 7, 7) = <<"handle">>
          /\ Slice(Emitted[i], 7, 8) = Slice(Emitted[j], 7, 8)
       \/ /\ IsKind(Emitted[i], "class", "add")
          /\ IsKind(Emitted[j], "class", "add")
          /\ Slice(Emitted[i], 7, 7) = <<"classid">>
          /\ Slice(Emitted[i], 7, 8) = Slice(Emitted[j], 7, 8)

HandlesUnique ==
    \A i, j \in 1..Len(Emitted) : i < j => ~SameHandle(i, j)

\* C19 as stated: in the MqSetup output every handle and every classid is
\* unique within its device, for every queues_available, stick_offset and
\* on_a_stick setting.
C19_Original == CalledToCommands("MqSetup") => HandlesUnique

\* C19: in the MqSetup output every handle and every classid is unique
\* within its device when not on-a-stick, and on-a-stick when stick_offset
\* >= queues_available; on-a-stick with stick_offset < queues_available
\* the two loops create the same handles on the one device.
C19_HandlesUnique ==
    CalledToCommands("MqSetup") =>
        (HandlesUnique <=>
            (~config.on_a_stick
             \/ cmd.stick_offset >= cmd.queues_available))

C19_Witness ==
    /\ CalledToCommands("MqSetup")
    /\ config.on_a_stick
    /\ cmd.queues_available = 2
    /\ cmd.stick_offset = 2
    /\ Len(Emitted) = 22
    /\ HandlesUnique

\* The 'class replace' commands among argvs, in order.
ClassReplaces(argvs) ==
    SelectSeq(argvs, LAMBDA a : IsKind(a, "class", "replace"))

\* What the last call's command encodes to with monitor_only off.
EmittedShaping ==
    LET r == to_commands(cmd, [config EXCEPT !.monitor_only = FALSE],
                         execution_mode)
    IN IF r.some THEN r.v ELSE <<>>

\* C20: with monitor_only on, AddCircuit emits no SQM 'qdisc replace' in
\* any execution mode and lazy mode, and its HTB 'class replace' commands
\* are exactly those it emits for the same inputs with monitor_only off.
C20_MonitorOnly ==
    (CalledToCommands("AddCircuit") /\ config.monitor_only) =>
        /\ Count("qdisc", "replace") = 0
        /\ Count("qdisc", "add") = 0
        /\ ClassReplaces(Emitted) = ClassReplaces(EmittedShaping)
        /\ Len(Emitted) = Len(ClassReplaces(EmittedShaping))

C20_Witness ==
    /\ CalledToCommands("AddCircuit")
    /\ config.monitor_only
    /\ execution_mode = "LiveUpdate"
    /\ config.lazy_queues = "Full"
    /\ Len(Emitted) = 2
    /\ Len(EmittedShaping) = 4
    /\ Count("class", "replace") = 2

\* ------------------------------------------------------------------- C14
Requested == search_request.some
RawTerm == trim(search_request.term)
TermIp == ParseIpAddr(RawTerm)
KindCount(kind) ==
    Cardinality({ i \in 1..Len(search_response) :
                    search_response[i].kind = kind })

\* C14: whatever the term, the device catalog, the trie and the site list,
\* search returns at most 50 results, and no two of them have the same
\* de-duplication key.
C14_SearchCap ==
    /\ Len(search_response) <= MAX_RESULTS
    /\ \A i, j \in 1..Len(search_response) :
           DedupKey(search_response[i]) = DedupKey(search_response[j])
               => i = j

\* A name search over more matching devices than a response holds: the cap
\* is reached, and circuits shared by two devices are listed once.
C14_Witness ==
    /\ Requested
    /\ Len(SHAPED_DEVICES.devices) > MAX_RESULTS
    /\ Len(search_response) = MAX_RESULTS
    /\ KindCount("Circuit") > 0
    /\ KindCount("Circuit") < KindCount("Device")

\* ------------------------------------------------------------------- C15
\* the trie entries whose network holds the address the term parses to
Covering ==
    IF TermIp.ok
    THEN { i \in 1..Len(SHAPED_DEVICES.trie) :
             same_prefix(SHAPED_DEVICES.trie[i].net.addr, query_v6(TermIp),
                         SHAPED_DEVICES.trie[i].net.len) }
    ELSE {}

\* the result the longest-prefix match of trie entry i stands for
LpmResult(i) ==
    LET e == SHAPED_DEVICES.trie[i]
        dev == SHAPED_DEVICES.devices[e.idx + 1]
    IN  Device(dev.circuit_id,
               dev.device_name \o <<" ", "(">> \o net_to_string(e.net)
                   \o <<")">>,
               dev.circuit_name)

IsLongest(i) ==
    /\ i \in Covering
    /\ \A j \in Covering :
           SHAPED_DEVICES.trie[j].net.len <= SHAPED_DEVICES.trie[i].net.len

\* C15: when the term parses as an IP address and the trie has a
\* longest-prefix match for it, the first result is the Device result of
\* the matched device.
C15_IpFirst ==
    \A i \in 1..Len(SHAPED_DEVICES.trie) :
        (Requested /\ IsLongest(i))
            => /\ Len(search_response) >= 1
               /\ search_response[1] = LpmResult(i)

\* An address held by two nested networks of different devices.
C15_Witness ==
    /\ Requested
    /\ Cardinality(Covering) >= 2
    /\ Len(search_response) >= 1
    /\ search_response[1].kind = "Device"
    /\ \E i \in Covering : IsLongest(i) /\ search_response[1] = LpmResult(i)

\* ------------------------------------------------------------------- C16
\* C16 as stated: a term that parses as an IP address gets at most one
\* result; the later passes add nothing.
C16_Original ==
    (Requested /\ TermIp.ok) => Len(search_response) <= 1

\* result r is one the textual-prefix pass or a name pass produces for the
\* term
FromLaterPass(r) ==
    LET term_lc == to_lowercase(RawTerm)
        sd == SHAPED_DEVICES
    IN  \/ /\ r.kind = "Device"
           /\ \E i \in 1..Len(sd.trie) :
                  /\ starts_with(net_to_string(sd.trie[i].net), RawTerm)
                  /\ r = LpmResult(i)
        \/ /\ r.kind = "Device"
           /\ \E d \in 1..Len(sd.devices) :
                  /\ contains(to_lowercase(sd.devices[d].device_name),
                              term_lc)
                  /\ r = Device(sd.devices[d].circuit_id,
                                sd.devices[d].device_name,
                                sd.devices[d].circuit_name)
        \/ /\ r.kind = "Circuit"
           /\ \E d \in 1..Len(sd.devices) :
                  /\ contains(to_lowercase(sd.devices[d].circuit_name),
                              term_lc)
                  /\ r = Circuit(sd.devices[d].circuit_id,
                                 sd.devices[d].circuit_name)
        \/ /\ r.kind = "Site"
           /\ r.idx < Len(NETWORK_JSON)
           /\ contains(to_lowercase(NETWORK_JSON[r.idx + 1]), term_lc)
           /\ r.name = NETWORK_JSON[r.idx + 1]

\* C16, amended: for a term that parses as an IP address the longest-prefix
\* match gives at most one result, the first one; the passes after it still
\* run: every further result comes from the textual-prefix pass or from a
\* name pass, and below the cap every device and every site whose name
\* contains the term is in the results.
C16_IpThenLaterPasses ==
    (Requested /\ TermIp.ok) =>
        LET k == IF Covering = {} THEN 0 ELSE 1
            term_lc == to_lowercase(RawTerm)
        IN  /\ Len(search_response) >= k
            /\ \A i \in (k + 1)..Len(search_response) :
                   FromLaterPass(search_response[i])
            /\ Len(search_response) < MAX_RESULTS =>
                   /\ \A d \in 1..Len(SHAPED_DEVICES.devices) :
                          contains(to_lowercase(
                                       SHAPED_DEVICES.devices[d].device_name),
                                   term_lc)
                              => \E i \in 1..Len(search_response) :
                                     search_response[i] =
                                         Device(
                                           SHAPED_DEVICES.devices[d].circuit_id,
                                           SHAPED_DEVICES.devices[d].device_name,
                                           SHAPED_DEVICES.devices[d].circuit_name)
                   /\ \A s \in 1..Len(NETWORK_JSON) :
                          contains(to_lowercase(NETWORK_JSON[s]), term_lc)
                              => \E i \in 1..Len(search_response) :
                                     search_response[i] =
                                         Site(s - 1, NETWORK_JSON[s])

\* An address that is matched by the trie and is also part of a device name
\* and of a site name: three results.
C16_Witness ==
    /\ Requested
    /\ TermIp.ok
    /\ Covering # {}
    /\ Len(search_response) = 3
    /\ search_response[1].kind = "Device"
    /\ search_response[2].kind = "Device"
    /\ search_response[3].kind = "Site"

\* ------------------------------------------------------------------- C17
\* C17: however load and save calls of the callers interleave, at most one
\* call holds the advisory lock; a call that is about to check, read or
\* write the override file holds it; and a caller that is not inside a call
\* does not hold it, whichever way the call returned.
C17_LockDiscipline ==
    /\ Cardinality(lock_holders) <= 1
    /\ \A c \in Clients : pc[c] \in FilePositions => c \in lock_holders
    /\ \A c \in Clients : c \in lock_holders <=> pc[c] \in LockedPositions

\* One caller is about to write under the lock while the other, whose last
\* load ended in a JSON error, is waiting for the lock.
C17_Witness ==
    \E c1, c2 \in Clients :
        /\ c1 # c2
        /\ pc[c1] = "save_write"
        /\ lock_holders = {c1}
        /\ pc[c2] = "load_lock"
        /\ ret[c2].call = "load"
        /\ ret[c2].err = "parse"

\* ------------------------------------------------------------------- C18
LoadedOk(c) == ret[c].call = "load" /\ ret[c].err = "none"

\* C18: a load that finds no override file writes the empty override set
\* and returns it with its three lists empty; as long as no save has
\* written, later loads return the same empty set, and a load never changes
\* an override file that exists.
C18_CreateEmpty ==
    /\ [](/\ \A c \in Clients :
                (pc[c] \in {"load_read", "load_parse"} /\ missing_seen[c])
                    => override_file = to_string(DefaultOverrideFile)
          /\ \A c \in Clients :
                (LoadedOk(c) /\ (ret[c].created \/ ret[c].fresh))
                    => /\ ret[c].value.persistent_devices = <<>>
                       /\ ret[c].value.circuit_adjustments = <<>>
                       /\ ret[c].value.network_adjustments = <<>>
          /\ fresh => override_file = to_string(DefaultOverrideFile))
    /\ [][(exists(override_file) /\ override_file' # override_file)
              => \E c \in Clients : pc[c] = "save_write"]_vars

\* The file was created by a load, a second load has returned since, and no
\* save has written in between.
C18_Witness ==
    /\ fresh
    /\ fresh_loads = 2
    /\ override_file = to_string(DefaultOverrideFile)
    /\ \E c \in Clients :
           LoadedOk(c) /\ ret[c].fresh /\ ~ret[c].created
               /\ ret[c].value = DefaultOverrideFile

\* ------------------------------------------------------------------- C21
\* C21: in every result of to_prune that is not None, every 'qdisc del'
\* comes before every 'class del'; the SQM deletes are two when not
\* on-a-stick, the Internet-facing interface first and the ISP-facing one
\* second, and one, on the ISP-facing interface, when on-a-stick.
C21_PruneOrder ==
    (op = "to_prune" /\ result.some) =>
        /\ \A i \in Positions("qdisc", "del"), j \in Positions("class", "del") :
               i < j
        /\ IF config.on_a_stick
           THEN /\ Count("qdisc", "del") = 1
                /\ Emitted[1][4] = isp_interface(config)
           ELSE /\ Count("qdisc", "del") = 2
                /\ Emitted[1][4] = internet_interface(config)
                /\ Emitted[2][4] = isp_interface(config)

\* A forced prune on two interfaces: two qdisc deletes, then two class
\* deletes.
C21_Witness ==
    /\ CalledToPrune("AddCircuit")
    /\ result.some
    /\ ~config.on_a_stick
    /\ Positions("qdisc", "del") = {1, 2}
    /\ Positions("class", "del") = {3, 4}

\* ------------------------------------------------------------------- C22
\* the handle an argv creates: `root handle H`, `... handle H` of a qdisc
\* add, `... classid C` of a class add; "" when it creates none
CreatedHandle(argv) ==
    IF Len(argv) >= 7 /\ argv[6] = "handle" THEN argv[7]
    ELSE IF Len(argv) >= 8 /\ argv[7] \in {"handle", "classid"} THEN argv[8]
    ELSE ""

\* the handle a `parent P` names: the mq root for its children 7FFF:0x<n>,
\* P itself otherwise
ParentHandle(p) ==
    IF \E n \in 1..(2 * MaxQueues + MaxStickOffset + 2) :
           p = "7FFF:0x" \o LowerHex(n)
    THEN "7FFF:"
    ELSE p

NamesParent(argv) == Len(argv) >= 6 /\ argv[5] = "parent"

IsRootDel(argv) == Len(argv) = 5 /\ IsKind(argv, "qdisc", "del")
                       /\ argv[5] = "root"

\* C22: MqSetup emits parents before children, whatever queues_available,
\* stick_offset and on_a_stick are: the root 'qdisc del' commands come
\* before everything else, and every command that names a parent handle on
\* a device comes after a command on the same device that creates that
\* handle.
C22_ParentsFirst ==
    CalledToCommands("MqSetup") =>
        /\ \A i, j \in 1..Len(Emitted) :
               (IsRootDel(Emitted[j]) /\ ~IsRootDel(Emitted[i])) => j < i
        /\ \A j \in 1..Len(Emitted) :
               NamesParent(Emitted[j]) =>
                   \E i \in 1..(j - 1) :
                       /\ Emitted[i][4] = Emitted[j][4]
                       /\ CreatedHandle(Emitted[i])
                              = ParentHandle(Emitted[j][6])

\* Two queues on two interfaces: 20 commands name a parent.
C22_Witness ==
    /\ CalledToCommands("MqSetup")
    /\ ~config.on_a_stick
    /\ cmd.queues_available = 2
    /\ Len(Emitted) = 24
    /\ Cardinality({ j \in 1..Len(Emitted) : NamesParent(Emitted[j]) }) = 20

\* ------------------------------------------------------------------- C23
\* argv is a main class of MqSetup: class add ... rate R ceil R quantum Q
IsMainClass(argv) ==
    Len(argv) = 15 /\ IsKind(argv, "class", "add") /\ argv[10] = "rate"

\* argv is a default class: class add ... rate R ceil C prio 5 quantum Q
IsDefaultClass(argv) ==
    Len(argv) = 17 /\ IsKind(argv, "class", "add") /\ argv[10] = "rate"

\* C23: in MqSetup the classes on the ISP-facing interface are sized from
\* the download capacity and those on the Internet-facing interface from
\* the upload capacity, the direction assignment of AddSite and AddCircuit.
C23_MqDirections ==
    (CalledToCommands("MqSetup") /\ ~config.on_a_stick) =>
        \A j \in 1..Len(Emitted) :
            IsMainClass(Emitted[j]) =>
                Emitted[j][11] =
                    Display(Max(1, IF Emitted[j][4] = isp_interface(config)
                                   THEN config.downlink_bandwidth_mbps
                                   ELSE config.uplink_bandwidth_mbps))
                        \o "mbit"

\* ------------------------------------------------------------------- C24
\* the default class argv is the one C24 describes for link capacity c, and
\* main is the main class of the same capacity
DefaultClassFor(c, argv, main) ==
    LET dr == Max(1, (IF c = 0 THEN 0 ELSE c - 1) \div 4)
        dc == Max(1, c - 1)
        m == Max(1, c)
    IN  /\ argv[11] = Display(dr) \o "mbit"
        /\ argv[12] = "ceil"
        /\ argv[13] = Display(dc) \o "mbit"
        /\ argv[14] = "prio"
        /\ argv[15] = "5"
        /\ main[11] = Display(m) \o "mbit"
        /\ main[12] = "ceil"
        /\ main[13] = Display(m) \o "mbit"
        /\ dr <= dc
        /\ dc <= m

PersistentDevices == self_value[Editor].persistent_devices

\* C25: starting from the empty override set, after any sequence of add and
\* remove calls no two persistent devices share a device_id; an add returns
\* false exactly when an equal device was already in the list, and then the
\* list is unchanged; otherwise it returns true, the device is the last
\* element, no earlier element has its device_id, and the other devices
\* keep their relative order.
C25_PersistentDevices ==
    /\ \A i, j \in 1..Len(PersistentDevices) :
           PersistentDevices[i].device_id = PersistentDevices[j].device_id
               => i = j
    /\ list_call.call = "add" =>
           LET d == list_call.device
               b == list_call.before
               others(x) == x.device_id # d.device_id
           IN  /\ ~list_call.changed <=> \E i \in 1..Len(b) : b[i] = d
               /\ ~list_call.changed => PersistentDevices = b
               /\ list_call.changed =>
                      /\ Len(PersistentDevices) >= 1
                      /\ PersistentDevices[Len(PersistentDevices)] = d
                      /\ SubSeq(PersistentDevices, 1,
                                Len(PersistentDevices) - 1)
                             = SelectSeq(b, others)

\* The first of three devices is replaced by a changed device of the same
\* device_id: the other two move up in order and the new one is last.
C25_Witness ==
    /\ list_call.call = "add"
    /\ list_call.changed
    /\ Len(list_call.before) = 3
    /\ list_call.before[1].device_id = list_call.device.device_id
    /\ list_call.before[1] # list_call.device
    /\ PersistentDevices
           = <<list_call.before[2], list_call.before[3], list_call.device>>

\* ------------------------------------------------------------------- C26
\* the adjustment caller c adds is in the override file
InFile(c) ==
    /\ override_file.json \in {"compact", "pretty"}
    /\ \E i \in 1..Len(override_file.data.circuit_adjustments) :
           override_file.data.circuit_adjustments[i] = RemoveCircuit(c)

\* C26: no update is lost: when both callers have each run the cycle load,
\* add one adjustment, save, in whatever interleaving, the override file
\* holds both adjustments once both saves have returned.
C26_NoLostUpdate ==
    (\A c \in Clients : cycle[c] = "saved") => \A c \in Clients : InFile(c)

====
